---------------------------- MODULE Spec2Model ----------------------------
(***************************************************************************)
(* Resume-Patch: the LangGraph workflow (workflow.js), the approval gate   *)
(* (nodes/approve-patches.js) and the patch engine (nodes/apply-patches.js)*)
(* as a state machine.                                                     *)
(*                                                                         *)
(* Strings are sequences of one-character strings so that toLowerCase,     *)
(* includes, trim and split are computed, not assumed.                     *)
(*                                                                         *)
(* A node of the graph is one action: the node function, the channel       *)
(* reducers applied to the update it returns, and the routing function of  *)
(* its outgoing edge.  A node that throws rejects workflow.invoke.         *)
(***************************************************************************)
EXTENDS Integers, Sequences, FiniteSets, TLC

(***************************************************************************)
(* Bounds                                                                  *)
(***************************************************************************)
\* most items the answers of the external models hold, taken together, in
\* one execution of suggest_patches
MaxPatches == 2
\* longest errors list a direct caller of createWorkflow().invoke passes in
MaxInitErrors == 1
\* proposals in a list handed to deduplicatePatches called on its own
MaxProposals == 4
\* skill groups in a list handed to enforceCategoryLimit called on its own
MaxGroups == 5
\* longest list of groups a category resolver is called with on its own
MaxListed == 2

(***************************************************************************)
(* Strings                                                                 *)
(***************************************************************************)
UpperChars == <<"A","B","C","D","E","F","G","H","I","J","K","L","M",
                "N","O","P","Q","R","S","T","U","V","W","X","Y","Z">>
LowerChars == <<"a","b","c","d","e","f","g","h","i","j","k","l","m",
                "n","o","p","q","r","s","t","u","v","w","x","y","z">>

UpperSet == {UpperChars[i] : i \in 1..Len(UpperChars)}
\* String.prototype.toLowerCase on one character
LowerChar(c) ==
  IF c \in UpperSet
  THEN LowerChars[CHOOSE i \in 1..Len(UpperChars) : UpperChars[i] = c]
  ELSE c

\* String.prototype.toLowerCase
toLowerCase(s) == <<>> \o [i \in 1..Len(s) |-> LowerChar(s[i])]

\* String.prototype.includes: t occurs in s as a contiguous substring
includes(s, t) ==
  \E off \in 0..(Len(s) - Len(t)) :
     \A i \in 1..Len(t) : s[off + i] = t[i]

IsSpace(c) == c \in {" ", "\n", "\t"}

RECURSIVE TrimLeft(_)
TrimLeft(s) == IF s # <<>> /\ IsSpace(Head(s)) THEN TrimLeft(Tail(s)) ELSE s

RECURSIVE TrimRight(_)
TrimRight(s) ==
  IF s # <<>> /\ IsSpace(s[Len(s)]) THEN TrimRight(SubSeq(s, 1, Len(s) - 1)) ELSE s

\* String.prototype.trim
trim(s) == TrimRight(TrimLeft(s))

\* Array.prototype.join
RECURSIVE join(_, _)
join(parts, sep) ==
  IF parts = <<>> THEN <<>>
  ELSE IF Len(parts) = 1 THEN parts[1]
  ELSE parts[1] \o sep \o join(Tail(parts), sep)

\* Array.prototype.filter, for a predicate given as the set of kept values
RECURSIVE SelectIdx(_, _, _)
SelectIdx(s, keep, i) ==
  IF i > Len(s) THEN <<>>
  ELSE (IF i \in keep THEN <<s[i]>> ELSE <<>>) \o SelectIdx(s, keep, i + 1)

(***************************************************************************)
(* JS values that may be null                                              *)
(***************************************************************************)
Null == [t |-> "null"]
Str(s) == [t |-> "str", s |-> s]
IsStr(v) == v.t = "str"
\* JS truthiness of a string-or-null value
Truthy(v) == IsStr(v) /\ Len(v.s) > 0

(***************************************************************************)
(* Graph                                                                   *)
(***************************************************************************)
END == "__end__"
\* workflow.invoke rejected: a node threw
THROWN == "__thrown__"

NodeNames == {"start", "parse_resume", "fetch_jd", "analyze", "suggest_patches",
              "approve_patches", "apply_patches", "export", "handle_error",
              "retry_parse", "retry_fetch"}

\* reducer (l = [], r) => l.concat(r || [])   (keywords, patches,
\* processing_log, errors)
ConcatReducer(l, r) == l \o r
\* reducer (_l, r) => r
LastValueReducer(l, r) == r


(***************************************************************************)
(* Vocabulary of the bounded inputs                                        *)
(***************************************************************************)
Python   == <<"P","y","t","h","o","n">>
Docker   == <<"D","o","c","k","e","r">>
React    == <<"R","e","a","c","t">>
Core     == <<"C","o","r","e">>
Backend  == <<"B","a","c","k","e","n","d">>
Skills   == <<"S","k","i","l","l","s">>
Built    == <<"B","u","i","l","t">>
Owned    == <<"O","w","n","e","d">>
JdBody   == <<"j","d">>
Blank    == <<" ">>

(***************************************************************************)
(* JSON Resume documents (parse-resume.js:165-169 guarantees the arrays    *)
(* skills and work; their entries are whatever the parser returned).       *)
(*   skills entry: name, keywords; kwArr = FALSE is an entry whose         *)
(*                 keywords is not an array                                *)
(*   work entry:   summary (Null when the key is absent), highlights;      *)
(*                 hlArr = FALSE is an entry whose highlights is not an    *)
(*                 array                                                   *)
(***************************************************************************)
Group(name, kws) == [name |-> name, keywords |-> kws, kwArr |-> TRUE]
Work(summary, hls) == [summary |-> summary, highlights |-> hls, hlArr |-> TRUE]

DocCore ==
  LET Led == <<"L","e","d">>
  IN [skills |-> << Group(Core, <<Python, Docker>>) >>,
      work   |-> << Work(Str(Led), <<Built>>) >>]
DocEmpty == [skills |-> <<>>, work |-> <<>>]

\* the documents the parsing collaborator may return
Documents ==
  LET \* the second entry has no name
      DocNoName == [skills |-> << Group(Backend, <<Python>>), Group(<<>>, <<React>>) >>,
                    work   |-> <<>>]
      \* the first entry has a keywords value that is no array
      DocNoKw ==
        LET GroupNoKeywords(name) == [name |-> name, keywords |-> <<>>, kwArr |-> FALSE]
        IN [skills |-> << GroupNoKeywords(Skills), Group(Backend, <<Python>>) >>,
            work   |-> << Work(Str(<<>>), <<>>) >>]
      \* the work entry has highlights and no summary
      DocTwo ==
        LET Frontend == <<"F","r","o","n","t","e","n","d">>
        IN [skills |-> << Group(Backend, <<Python>>), Group(Frontend, <<React>>) >>,
            work   |-> << Work(Null, <<Built>>) >>]
      \* as many groups as the category limit allows
      DocFour ==
        LET Tools == <<"T","o","o","l","s">>
        IN [skills |-> << Group(Backend, <<Python>>), Group(Core, <<Docker>>),
                          Group(Skills, <<>>), Group(Tools, <<>>) >>,
            work   |-> <<>>]
  IN {DocCore, DocTwo, DocEmpty, DocNoKw, DocNoName, DocFour}

(***************************************************************************)
(* Patch proposals (suggest-patches.js).  jsonPatch is the optional        *)
(* pre-built RFC 6902 operation list, <<>> when the proposal has none.     *)
(* An operation path is kept in parsed form:                               *)
(*   "/skills/-"              [coll |-> "skills", idx |-> 0,               *)
(*                             field |-> "", dash |-> TRUE]                *)
(*   "/skills/i/keywords/-"   [coll |-> "skills", idx |-> i,               *)
(*                             field |-> "keywords", dash |-> TRUE]        *)
(*   "/work/i/highlights/-"   [coll |-> "work", idx |-> i,                 *)
(*                             field |-> "highlights", dash |-> TRUE]      *)
(*   "/work/i/summary"        [coll |-> "work", idx |-> i,                 *)
(*                             field |-> "summary", dash |-> FALSE]        *)
(***************************************************************************)
Path(coll, idx, field, dash) ==
  [coll |-> coll, idx |-> idx, field |-> field, dash |-> dash]
\* value of an operation: a string, or a new skills entry
OpStr(op, path, s) == [op |-> op, path |-> path, vt |-> "str", s |-> s, g |-> Group(<<>>, <<>>)]

\* the values of details.action the generators write (suggest-patches.js)
AddToSkillsSection ==
  <<"a","d","d","_","t","o","_","s","k","i","l","l","s","_",
    "s","e","c","t","i","o","n">>
AddProjectSection ==
  <<"a","d","d","_","p","r","o","j","e","c","t","_","s","e",
    "c","t","i","o","n">>
\* 'Add missing skills: ' (analyze.js:330, apply-patches.js:618)
AddMissing ==
  <<"A","d","d"," ","m","i","s","s","i","n","g"," ","s","k",
    "i","l","l","s",":"," ">>

\* a candidate; description is read only where details.value is empty and
\* is kept equal to the id
Patch(id, type, priority, value, action, ops) ==
  [id |-> id, type |-> type, priority |-> priority, value |-> value,
   action |-> action, description |-> id, jsonPatch |-> ops]

\* generateSkillPatches, the candidate of one relevant skill
\* (suggest-patches.js:286-299)
SkillPatch(skill) ==
  Patch(<<"s","k","i","l","l","_">> \o toLowerCase(skill), "add_skill", "high",
        Str(skill), Str(AddToSkillsSection), <<>>)

\* generateSkillPatches, the candidate enhance_skills_section
\* (suggest-patches.js:304-317)
EnhanceSkillsSection ==
  LET SpecificVersions ==
        <<"A","d","d"," ","s","p","e","c","i","f","i","c"," ","v",
          "e","r","s","i","o","n","s",","," ","f","r","a","m","e",
          "w","o","r","k","s",","," ","a","n","d"," ","t","o","o",
          "l","s">>
      ExpandSkillsDescription ==
        <<"e","x","p","a","n","d","_","s","k","i","l","l","s","_",
          "d","e","s","c","r","i","p","t","i","o","n">>
  IN
  Patch(<<"e","n","h","a","n","c","e","_","s","k","i","l","l","s">>,
        "enhance_section", "medium", Str(SpecificVersions),
        Str(ExpandSkillsDescription), <<>>)

\* generateJDInferredSkills, the candidate of one inferred skill
\* (suggest-patches.js:832-845)
JDSkillPatch(s) ==
  LET \* generateJDInferredSkills (suggest-patches.js:839-842): the pre-built
      \* operations
      JDInferredOps(skill) ==
        LET OpGroup(op, path, g) == [op |-> op, path |-> path, vt |-> "group", s |-> <<>>, g |-> g]
        IN
        << OpGroup("add", Path("skills", 0, "", TRUE), Group(Skills, <<>>)),
           OpStr("add", Path("skills", 0, "keywords", TRUE), skill) >>
  IN
  Patch(<<"j","d","_","s","k","i","l","l","_">> \o toLowerCase(s), "add_skill", "high",
        Str(s), Str(AddToSkillsSection), JDInferredOps(s))

\* generateExperiencePatches, the candidate highlight_experience
\* (suggest-patches.js:418-431)
HighlightExperience ==
  LET FocusRelevant ==
        <<"F","o","c","u","s"," ","o","n"," ","m","o","s","t"," ",
          "r","e","l","e","v","a","n","t"," ","p","r","o","j","e",
          "c","t","s"," ","a","n","d"," ","a","c","h","i","e","v",
          "e","m","e","n","t","s">>
      EmphasizeRelevantExperience ==
        <<"e","m","p","h","a","s","i","z","e","_","r","e","l","e",
          "v","a","n","t","_","e","x","p","e","r","i","e","n","c",
          "e">>
  IN
  Patch(<<"h","i","g","h","l","i","g","h","t">>, "enhance_experience", "medium",
        Str(FocusRelevant), Str(EmphasizeRelevantExperience), <<>>)

\* generateExperiencePatches, the candidate add_project_experience
\* (suggest-patches.js:444-457)
AddProjectExperience ==
  LET IncludeProjects ==
        <<"I","n","c","l","u","d","e"," ","r","e","l","e","v","a",
          "n","t"," ","p","r","o","j","e","c","t","s"," ","w","i",
          "t","h"," ","m","e","a","s","u","r","a","b","l","e"," ",
          "o","u","t","c","o","m","e","s">>
  IN
  Patch(<<"a","d","d","_","p","r","o","j","e","c","t">>, "add_content", "low",
        Str(IncludeProjects), Str(AddProjectSection), <<>>)

\* generateExperienceAlignmentPatches, the candidate of one item of the
\* answer (suggest-patches.js:721-737); the id carries the position in the
\* answer
ExperienceAlignment(n, text) ==
  LET AddTechnologyMention ==
        <<"a","d","d","_","t","e","c","h","n","o","l","o","g","y",
          "_","m","e","n","t","i","o","n">>
  IN
  Patch(<<"e","x","p","_","a","l","i","g","n","_">> \o <<ToString(n)>>,
        "align_experience", "high", Str(text), Str(AddTechnologyMention), <<>>)

\* generateRoleSpecificEnhancements, the candidate of one enhancement
\* (suggest-patches.js:625-640); the id carries the position in the answer
RoleEnhancement(n, text) ==
  LET EnhanceForRole ==
        <<"e","n","h","a","n","c","e","_","f","o","r","_","r","o",
          "l","e">>
  IN
  Patch(<<"r","o","l","e","_","e","n","h","a","n","c","e","_">> \o <<ToString(n)>>,
        "role_enhancement", "high", Str(text), Str(EnhanceForRole), <<>>)

\* generateContentPatches, the candidate of an add_skills recommendation
\* (suggest-patches.js:467-481); rec.priority is 'high' (analyze.js:329)
RecommendationPatch(description) ==
  LET FollowRecommendation ==
        <<"f","o","l","l","o","w","_","r","e","c","o","m","m","e",
          "n","d","a","t","i","o","n">>
  IN
  Patch(<<"r","e","c","_","a","d","d","_","s","k","i","l","l","s">>,
        "recommendation_based", "high", Str(description),
        Str(FollowRecommendation), <<>>)

\* generateKeywordPatches, the candidate of one relevant keyword
\* (suggest-patches.js:503-516)
KeywordPatch(keyword) ==
  LET AddKeywordToContent ==
        <<"a","d","d","_","k","e","y","w","o","r","d","_","t","o",
          "_","c","o","n","t","e","n","t">>
  IN
  Patch(<<"k","e","y","w","o","r","d","_">> \o toLowerCase(keyword), "add_keyword",
        "medium", Str(keyword), Str(AddKeywordToContent), <<>>)


RECURSIVE SeqsUpTo(_, _)
SeqsUpTo(S, n) ==
  IF n = 0 THEN {<<>>}
  ELSE LET shorter == SeqsUpTo(S, n - 1)
       IN shorter \cup {Append(q, x) : q \in {r \in shorter : Len(r) = n - 1}, x \in S}

\* patch.details.value?.toLowerCase() || patch.description.toLowerCase()
ValueKey(p) ==
  IF Truthy(p.value) THEN toLowerCase(p.value.s) ELSE toLowerCase(p.description)

\* the similarKey test of deduplicatePatches: some OTHER element of the whole
\* input list has a value that contains, or is contained in, this one
SimilarKey(ps, i) ==
  \E j \in 1..Len(ps) :
     /\ j # i
     /\ \/ includes(ValueKey(ps[i]), ValueKey(ps[j]))
        \/ includes(ValueKey(ps[j]), ValueKey(ps[i]))

\* `${patch.type}_${value}`
DedupKey(p) == <<p.type, ValueKey(p)>>

RECURSIVE DedupFrom(_, _, _)
DedupFrom(ps, i, seen) ==
  IF i > Len(ps) THEN <<>>
  ELSE IF DedupKey(ps[i]) \notin seen /\ ~SimilarKey(ps, i)
       THEN <<ps[i]>> \o DedupFrom(ps, i + 1, seen \cup {DedupKey(ps[i])})
       ELSE DedupFrom(ps, i + 1, seen)

\* a deduplicator that returns the proposals it keeps last to first
deduplicatePatchesLastFirst(ps) ==
  LET kept == DedupFrom(ps, 1, {})
  IN [i \in 1..Len(kept) |-> kept[Len(kept) + 1 - i]]

deduplicatePatches(ps) == DedupFrom(ps, 1, {})


\* Array.prototype.sort with (a, b) => priorityOrder[b] - priorityOrder[a]:
\* stable, descending by priority
SortByPriority(ps) ==
  SelectIdx(ps, {i \in 1..Len(ps) : ps[i].priority = "high"}, 1)
  \o SelectIdx(ps, {i \in 1..Len(ps) : ps[i].priority = "medium"}, 1)
  \o SelectIdx(ps, {i \in 1..Len(ps) : ps[i].priority \notin {"high", "medium"}}, 1)


(***************************************************************************)
(* External classifier (OpenAI chat completion asked for a category index) *)
(*   [k |-> "fail"]          the call throws (no API key, network, ...)    *)
(*   [k |-> "nan"]           parseInt of the answer is NaN                 *)
(*   [k |-> "int", n |-> n]  parseInt of the answer is n                   *)
(***************************************************************************)
AiFail == [k |-> "fail", n |-> 0]
\* answers tried for a list of len groups: failure, garbage, a negative
\* number, every valid index and one index past the end
AiAnswers(len) ==
  LET AiInt(n) == [k |-> "int", n |-> n]
      AiNaN  == [k |-> "nan", n |-> 0]
  IN {AiFail, AiNaN} \cup {AiInt(n) : n \in (-1)..len}

\* split(/[^...]+/).filter(Boolean): maximal runs of characters of tok
RECURSIVE SplitRuns(_, _, _)
SplitRuns(s, tok, cur) ==
  IF s = <<>> THEN (IF cur = <<>> THEN <<>> ELSE <<cur>>)
  ELSE IF Head(s) \in tok THEN SplitRuns(Tail(s), tok, Append(cur, Head(s)))
  ELSE (IF cur = <<>> THEN <<>> ELSE <<cur>>) \o SplitRuns(Tail(s), tok, <<>>)

Digits == {"0","1","2","3","4","5","6","7","8","9"}
LowerSet == {LowerChars[i] : i \in 1..Len(LowerChars)}
tokenize(s) ==
  LET \* the tokenizer of pickSkillsGroupIndexForKeyword: [a-z0-9.+#/-]
      JsonTokChars == LowerSet \cup Digits \cup {".", "+", "#", "/", "-"}
  IN SplitRuns(toLowerCase(s), JsonTokChars, <<>>)

SeqToSet(q) == {q[i] : i \in 1..Len(q)}

RECURSIVE SumSeq(_)
SumSeq(q) == IF q = <<>> THEN 0 ELSE Head(q) + SumSeq(Tail(q))

\* keywords of a skills entry as the code reads them:
\* Array.isArray(list[i]?.keywords) ? list[i].keywords : []
KeywordsOf(g) == IF g.kwArr THEN g.keywords ELSE <<>>

\* score of one keyword k of a group against the new keyword (lines 243-261)
JsonKeywordScore(k, lower, kwTokens) ==
  LET keywordLower == toLowerCase(k) IN
  IF keywordLower = lower THEN 100
  ELSE IF includes(keywordLower, lower) \/ includes(lower, keywordLower) THEN 50
  ELSE LET tokens == tokenize(k)
       IN 10 * Cardinality({i \in 1..Len(tokens) : tokens[i] \in kwTokens})

\* score of group g (lines 238-267)
JsonGroupScore(g, lower, kwTokens) ==
  LET arr == KeywordsOf(g)
      categoryName == toLowerCase(g.name)
  IN SumSeq([i \in 1..Len(arr) |-> JsonKeywordScore(arr[i], lower, kwTokens)])
     + (IF includes(categoryName, lower) \/ includes(lower, categoryName) THEN 25 ELSE 0)

\* the loop "if (score > bestScore) { bestScore = score; bestIdx = i }"
\* over scores, 0-based result, starting from bestIdx 0 and bestScore init
RECURSIVE ArgMaxFirst(_, _, _, _)
ArgMaxFirst(scores, i, bestIdx, bestScore) ==
  IF i > Len(scores) THEN bestIdx
  ELSE IF scores[i] > bestScore THEN ArgMaxFirst(scores, i + 1, i - 1, scores[i])
  ELSE ArgMaxFirst(scores, i + 1, bestIdx, bestScore)

\* the catch branch of pickSkillsGroupIndexForKeyword (lines 229-276)
SimilarityFallback(list, kw) ==
  LET lower == toLowerCase(kw)
      kwTokens == SeqToSet(tokenize(kw))
  IN ArgMaxFirst([i \in 1..Len(list) |-> JsonGroupScore(list[i], lower, kwTokens)],
                 1, 0, -1)

\* a resolver without the exact-match step
NoExactMatch(list, lower) == -1

\* 0-based index of the first group containing the keyword, -1 when none
ExactMatchIndex(list, lower) ==
  IF \E i \in 1..Len(list) :
        \E j \in 1..Len(KeywordsOf(list[i])) : toLowerCase(KeywordsOf(list[i])[j]) = lower
  THEN (CHOOSE i \in 1..Len(list) :
          /\ \E j \in 1..Len(KeywordsOf(list[i])) : toLowerCase(KeywordsOf(list[i])[j]) = lower
          /\ \A h \in 1..(i - 1) :
               \A j \in 1..Len(KeywordsOf(list[h])) : toLowerCase(KeywordsOf(list[h])[j]) # lower) - 1
  ELSE -1

\* isNaN(categoryIndex) || categoryIndex >= list.length ? 0 : categoryIndex
ValidIndex(ai, len) == IF ai.k = "nan" \/ ai.n >= len THEN 0 ELSE ai.n

\* pickSkillsGroupIndexForKeyword(skills, keyword): 0-based index
pickSkillsGroupIndexForKeyword(list, keyword, ai) ==
  LET kw == trim(keyword)
      lower == toLowerCase(kw)
  IN IF Len(list) = 0 THEN 0
     ELSE IF ExactMatchIndex(list, lower) >= 0 THEN ExactMatchIndex(list, lower)
     ELSE IF ai.k = "fail" THEN SimilarityFallback(list, kw)
     ELSE ValidIndex(ai, Len(list))

(***************************************************************************)
(* Structural patcher (apply-patches.js)                                   *)
(***************************************************************************)
DotSpace == <<".", " ">>

\* ensureGroupKeywordsArrayExists(root, idx).  For idx = -1 the assignment
\* root.skills[-1] = {...} sets a non-index property of the array, which is
\* not part of the JSON document (not counted by length, map or
\* JSON.stringify): the document value is unchanged.
ensureGroupKeywordsArrayExists(root, idx) ==
  IF idx < 0 THEN root
  ELSE IF idx >= Len(root.skills)
  THEN [root EXCEPT !.skills = Append(root.skills, Group(Skills, <<>>))]
  ELSE IF ~root.skills[idx + 1].kwArr
  THEN [root EXCEPT !.skills[idx + 1] = Group(root.skills[idx + 1].name, <<>>)]
  ELSE root

\* buildJsonPatchOpsForPatch(patch, root): the operations it returns and root
\* as the function leaves it (it edits root in place before returning)
buildJsonPatchOpsForPatch(patch, root, ai) ==
  LET DefaultEnhancement ==
        <<"K","e","y"," ","a","c","h","i","e","v","e","m","e","n",
          "t",":"," ","R","e","l","e","v","a","n","t"," ","t","o",
          " ","t","a","r","g","e","t"," ","r","o","l","e">>
  IN
  CASE patch.type \in {"add_skill", "add_keyword"} ->
         IF ~Truthy(patch.value) THEN [ops |-> <<>>, root |-> root]
         ELSE LET idx == pickSkillsGroupIndexForKeyword(root.skills, patch.value.s, ai)
              IN [ops  |-> << OpStr("add", Path("skills", idx, "keywords", TRUE), patch.value.s) >>,
                  root |-> ensureGroupKeywordsArrayExists(root, idx)]
    [] patch.type \in {"role_enhancement", "align_experience"} ->
         IF ~Truthy(patch.value) \/ Len(root.work) = 0 THEN [ops |-> <<>>, root |-> root]
         ELSE LET workIdx == Len(root.work) - 1
              IN [ops  |-> << OpStr("add", Path("work", workIdx, "highlights", TRUE), patch.value.s) >>,
                  root |-> IF root.work[workIdx + 1].hlArr THEN root
                           ELSE [root EXCEPT !.work[workIdx + 1].hlArr = TRUE,
                                             !.work[workIdx + 1].highlights = <<>>]]
    [] patch.type = "enhance_experience" ->
         IF Len(root.work) = 0 THEN [ops |-> <<>>, root |-> root]
         ELSE LET enhancementText == IF Truthy(patch.value) THEN patch.value.s ELSE DefaultEnhancement
                  workIdx == Len(root.work) - 1
                  cur == root.work[workIdx + 1].summary
                  updatedSummary == IF Truthy(cur) THEN cur.s \o DotSpace \o enhancementText
                                    ELSE enhancementText
              IN [ops  |-> << OpStr("replace", Path("work", workIdx, "summary", FALSE), updatedSummary) >>,
                  root |-> root]
    [] OTHER -> [ops |-> <<>>, root |-> root]

\* fast-json-patch applyOperation(document, op, validate = true): the
\* document after the operation, or the error code it throws
OpOk(doc) == [ok |-> TRUE, doc |-> doc, reason |-> ""]
OpErr(doc, reason) == [ok |-> FALSE, doc |-> doc, reason |-> reason]

applyOperation(doc, op) ==
  LET pth == op.path
      coll == IF pth.coll = "skills" THEN doc.skills ELSE doc.work
  IN
  IF pth.field = "" THEN
       \* "/skills/-": append to the collection
       IF pth.coll = "skills" /\ op.vt = "group"
       THEN OpOk([doc EXCEPT !.skills = Append(doc.skills, op.g)])
       ELSE OpErr(doc, "OPERATION_PATH_UNRESOLVABLE")
  ELSE IF pth.idx < 0 THEN OpErr(doc, "OPERATION_PATH_ILLEGAL_ARRAY_INDEX")
  ELSE IF pth.idx >= Len(coll) THEN OpErr(doc, "OPERATION_PATH_CANNOT_ADD")
  ELSE IF pth.coll = "skills" /\ pth.field = "keywords" /\ pth.dash THEN
       IF ~doc.skills[pth.idx + 1].kwArr THEN OpErr(doc, "OPERATION_PATH_CANNOT_ADD")
       ELSE OpOk([doc EXCEPT !.skills[pth.idx + 1].keywords = Append(@, op.s)])
  ELSE IF pth.coll = "work" /\ pth.field = "highlights" /\ pth.dash THEN
       IF ~doc.work[pth.idx + 1].hlArr THEN OpErr(doc, "OPERATION_PATH_CANNOT_ADD")
       ELSE OpOk([doc EXCEPT !.work[pth.idx + 1].highlights = Append(@, op.s)])
  ELSE IF pth.coll = "work" /\ pth.field = "summary" /\ ~pth.dash THEN
       IF ~IsStr(doc.work[pth.idx + 1].summary) THEN OpErr(doc, "OPERATION_PATH_UNRESOLVABLE")
       ELSE OpOk([doc EXCEPT !.work[pth.idx + 1].summary = Str(op.s)])
  ELSE OpErr(doc, "OPERATION_PATH_UNRESOLVABLE")

\* fast-json-patch applyPatch(document, ops, validate = true): the
\* operations are applied to the document one after the other, in place;
\* the first one that fails throws and the earlier ones stay applied
RECURSIVE applyPatch(_, _)
applyPatch(doc, ops) ==
  IF ops = <<>> THEN OpOk(doc)
  ELSE LET r == applyOperation(doc, Head(ops))
       IN IF r.ok THEN applyPatch(r.doc, Tail(ops)) ELSE r

\* one iteration of the loop of applyPatchesToJsonResume (lines 139-163):
\* the in-progress document afterwards and how the patch is recorded
JsonStep(patch, doc, ai) ==
  LET prebuilt == Len(patch.jsonPatch) > 0
      built == buildJsonPatchOpsForPatch(patch, doc, ai)
      ops == IF prebuilt THEN patch.jsonPatch ELSE built.ops
      root == IF prebuilt THEN doc ELSE built.root
      r == applyPatch(root, ops)
  IN IF Len(ops) = 0
     THEN [doc |-> root, applied |-> FALSE, reason |-> "No JSON Patch ops available", ops |-> ops]
     ELSE [doc |-> r.doc, applied |-> r.ok, reason |-> r.reason, ops |-> ops]

(***************************************************************************)
(* Flattened text sections and the textual patcher (apply-patches.js)      *)
(***************************************************************************)
\* stands for U+2022, the bullet written by stringifyGroupedSkills
Bullet == "*"
NL == <<"\n">>
CommaSpace == <<",", " ">>
ColonSpace == <<":", " ">>

\* [a, b, ...].filter(Boolean): drop the empty strings
RECURSIVE NonEmpty(_)
NonEmpty(q) ==
  IF q = <<>> THEN <<>>
  ELSE (IF Head(q) = <<>> THEN <<>> ELSE <<Head(q)>>) \o NonEmpty(Tail(q))

\* getResumeSectionsFromJsonResume(json); the model's documents carry no
\* basics, education, position, company or location, whose text is ''
getResumeSectionsFromJsonResume(json) ==
  LET SP == <<" ">>
      SkillsLine(g) ==
        LET kws == IF g.kwArr THEN join(NonEmpty(g.keywords), CommaSpace) ELSE <<>>
        IN IF g.name # <<>> /\ kws # <<>> THEN g.name \o ColonSpace \o kws ELSE g.name
      WorkText(w) ==
        join(NonEmpty(<< IF Truthy(w.summary) THEN w.summary.s ELSE <<>>,
                         IF w.hlArr THEN join(w.highlights, SP) ELSE <<>> >>), SP)
  IN
  [basics     |-> Str(<<>>),
   experience |-> Str(join([i \in 1..Len(json.work) |-> WorkText(json.work[i])], NL)),
   education  |-> Str(<<>>),
   skills     |-> Str(join(NonEmpty([i \in 1..Len(json.skills) |-> SkillsLine(json.skills[i])]), NL)),
   projects   |-> Null]

\* String.prototype.split(separator in seps), empty pieces kept
RECURSIVE SplitOn(_, _, _)
SplitOn(s, seps, start) ==
  LET cuts == {i \in start..Len(s) : s[i] \in seps}
  IN IF cuts = {} THEN << SubSeq(s, start, Len(s)) >>
     ELSE LET c == CHOOSE i \in cuts : \A j \in cuts : i <= j
          IN << SubSeq(s, start, c - 1) >> \o SplitOn(s, seps, c + 1)

\* l.replace(/^[\s•\-...]+/, '')
RECURSIVE StripBullets(_)
StripBullets(s) ==
  IF s # <<>> /\ (IsSpace(Head(s)) \/ Head(s) \in {Bullet, "-"})
  THEN StripBullets(Tail(s)) ELSE s

\* dedupeCaseInsensitive(arr): first spelling of every keyword, in order
RECURSIVE DedupeFrom(_, _)
DedupeFrom(arr, seen) ==
  IF arr = <<>> THEN <<>>
  ELSE IF toLowerCase(Head(arr)) \in seen THEN DedupeFrom(Tail(arr), seen)
  ELSE <<Head(arr)>> \o DedupeFrom(Tail(arr), seen \cup {toLowerCase(Head(arr))})

dedupeCaseInsensitive(arr) == DedupeFrom(arr, {})

\* the groups of one line: <<group>> when the line is "name: items"
LineGroups(line) ==
  LET \* position of the first ":" of a line, 0 when there is none
      FirstColon(ln) ==
        IF \E i \in 1..Len(ln) : ln[i] = ":"
        THEN CHOOSE i \in 1..Len(ln) :
               ln[i] = ":" /\ \A j \in 1..(i - 1) : ln[j] # ":"
        ELSE 0
      TGroup(name, kws) == [name |-> name, keywords |-> kws]
      \* the items of "name: a, b; c/d." : split(/[,;/]\s*/), strip one final
      \* dot, trim, drop the empty ones
      LineItems(rest) ==
        LET \* s.replace(/\.$/, '')
            StripFinalDot(s) ==
              IF s # <<>> /\ s[Len(s)] = "." THEN SubSeq(s, 1, Len(s) - 1) ELSE s
            pieces == SplitOn(rest, {",", ";", "/"}, 1)
        IN NonEmpty([i \in 1..Len(pieces) |-> trim(StripFinalDot(TrimLeft(pieces[i])))])
      c == FirstColon(line)
      name == trim(SubSeq(line, 1, c - 1))
      items == LineItems(SubSeq(line, c + 1, Len(line)))
  IN IF c > 0 /\ name # <<>> /\ items # <<>>
     THEN << TGroup(name, dedupeCaseInsensitive(items)) >>
     ELSE <<>>

RECURSIVE Flatten(_)
Flatten(qq) == IF qq = <<>> THEN <<>> ELSE Head(qq) \o Flatten(Tail(qq))

\* extractGroupedSkillsText(text)
extractGroupedSkillsText(text) ==
  LET \* the lines of a skills text as extractGroupedSkillsText sees them
      SkillLines(txt) ==
        LET raw == SplitOn(txt, {"\n"}, 1)
        IN NonEmpty([i \in 1..Len(raw) |-> trim(StripBullets(raw[i]))])
  IN
  IF text = <<>> THEN <<>>
  ELSE LET lines == SkillLines(text)
       IN Flatten([i \in 1..Len(lines) |-> LineGroups(lines[i])])

\* maxCategories = 4, the default parameter of enforceCategoryLimit
MaxCategories == 4

LowerSetOf(kws) == {toLowerCase(kws[i]) : i \in 1..Len(kws)}

\* calculateCategorySimilarity(cat1, cat2) = |I|/|U| + (0.2 or 0), kept as
\* the exact fraction num/den; nan is the 0/0 of two empty keyword lists
calculateCategorySimilarity(cat1, cat2) ==
  LET k1 == LowerSetOf(cat1.keywords)
      k2 == LowerSetOf(cat2.keywords)
      inter == Cardinality(k1 \cap k2)
      union == Cardinality(k1 \cup k2)
      name1 == toLowerCase(cat1.name)
      name2 == toLowerCase(cat2.name)
      bonus == IF includes(name1, name2) \/ includes(name2, name1) THEN 1 ELSE 0
  IN [nan |-> union = 0, num |-> 5 * inter + bonus * union, den |-> 5 * union]

\* the inner loop of enforceCategoryLimit: 1-based position in kept of the
\* best match, starting from kept[0] with bestScore 0
RECURSIVE BestMatch(_, _, _, _, _)
BestMatch(candidate, kept, i, best, bestScore) ==
  LET \* a > b on such scores (false whenever one side is NaN)
      ScoreGreater(a, b) == ~a.nan /\ ~b.nan /\ a.num * b.den > b.num * a.den
  IN
  IF i > Len(kept) THEN best
  ELSE LET score == calculateCategorySimilarity(candidate, kept[i])
       IN IF ScoreGreater(score, bestScore)
          THEN BestMatch(candidate, kept, i + 1, i, score)
          ELSE BestMatch(candidate, kept, i + 1, best, bestScore)

\* the outer loop: merge every candidate into its best match, in order
RECURSIVE MergeCandidates(_, _)
MergeCandidates(kept, cands) ==
  LET ZeroScore == [nan |-> FALSE, num |-> 0, den |-> 1]
  IN
  IF cands = <<>> THEN kept
  ELSE LET b == BestMatch(Head(cands), kept, 1, 1, ZeroScore)
           merged == [kept EXCEPT ![b].keywords =
                        dedupeCaseInsensitive(kept[b].keywords \o Head(cands).keywords)]
       IN MergeCandidates(merged, Tail(cands))

\* [...groups].sort((a, b) => b.keywords.length - a.keywords.length):
\* stable, descending by keyword count
RECURSIVE SortByCountFrom(_, _)
SortByCountFrom(groups, n) ==
  IF n < 0 THEN <<>>
  ELSE SelectIdx(groups, {i \in 1..Len(groups) : Len(groups[i].keywords) = n}, 1)
       \o SortByCountFrom(groups, n - 1)

SortByCount(groups) ==
  LET MaxLen(gs) ==
        IF gs = <<>> THEN 0
        ELSE CHOOSE n \in {Len(gs[i].keywords) : i \in 1..Len(gs)} :
               \A i \in 1..Len(gs) : Len(gs[i].keywords) <= n
  IN SortByCountFrom(groups, MaxLen(groups))

\* a consolidation that keeps one category too many
enforceCategoryLimitKeepingOneMore(groups, maxCategories) ==
  IF Len(groups) <= maxCategories THEN groups
  ELSE LET sortedGroups == SortByCount(groups)
       IN MergeCandidates(SubSeq(sortedGroups, 1, maxCategories + 1),
                          SubSeq(sortedGroups, maxCategories + 2, Len(sortedGroups)))

\* enforceCategoryLimit(groups, maxCategories)
enforceCategoryLimit(groups, maxCategories) ==
  IF Len(groups) <= maxCategories THEN groups
  ELSE LET sortedGroups == SortByCount(groups)
       IN MergeCandidates(SubSeq(sortedGroups, 1, maxCategories - 1),
                          SubSeq(sortedGroups, maxCategories, Len(sortedGroups)))

\* stringifyGroupedSkills(groups)
stringifyGroupedSkills(groups) ==
  LET consolidatedGroups == enforceCategoryLimit(groups, MaxCategories)
  IN join([i \in 1..Len(consolidatedGroups) |->
             <<Bullet, " ">> \o consolidatedGroups[i].name \o ColonSpace
             \o join(dedupeCaseInsensitive(consolidatedGroups[i].keywords), CommaSpace)
             \o <<".">>], NL)

\* score of one lower-cased keyword of a group (lines 819-828)
TextKeywordScore(keyword, s) ==
  LET \* the tokenizer of pickGroupForSkill: split(/[^a-z0-9]+/).filter(Boolean)
      TextTokens(lowered) == SplitRuns(lowered, LowerSet \cup Digits, <<>>)
  IN
  IF keyword = s THEN 10
  ELSE IF includes(keyword, s) \/ includes(s, keyword) THEN 5
  ELSE LET skillTokens == TextTokens(s)
           keywordTokens == SeqToSet(TextTokens(keyword))
       IN Cardinality({i \in 1..Len(skillTokens) : skillTokens[i] \in keywordTokens})

\* the catch branch of pickGroupForSkill (lines 807-838)
TextFallback(groups, skill) ==
  LET s == toLowerCase(skill)
  IN ArgMaxFirst([i \in 1..Len(groups) |->
                    SumSeq([j \in 1..Len(groups[i].keywords) |->
                              TextKeywordScore(toLowerCase(groups[i].keywords[j]), s)])],
                 1, 0, -1)

\* pickGroupForSkill(groups, skill): 0-based index
pickGroupForSkill(groups, skill, ai) ==
  IF Len(groups) = 0 THEN 0
  ELSE IF ai.k = "fail" THEN TextFallback(groups, skill)
  ELSE ValidIndex(ai, Len(groups))

\* resumeSections[x] || ''
OrEmpty(v) == IF Truthy(v) THEN v.s ELSE <<>>

ValueText(v) ==
  LET \* String(undefined) in a concatenation
      Undefined == <<"u","n","d","e","f","i","n","e","d">>
  IN IF IsStr(v) THEN v.s ELSE Undefined

TOk(section, content) == [kind |-> "ok", section |-> section, content |-> content, reason |-> ""]
TFail(reason) == [kind |-> "fail", section |-> "", content |-> <<>>, reason |-> reason]
\* a TypeError thrown inside the handler (a method called on undefined)
TThrow(reason) == [kind |-> "throw", section |-> "", content |-> <<>>, reason |-> reason]

\* the common body of applySkillPatch and applyKeywordPatch after the
\* "already exists" test: insert into the best group line, or append
InsertKeyword(skillsText, kw, ai, appendWhenTrimmed) ==
  LET groups == extractGroupedSkillsText(skillsText)
      targetIdx == pickGroupForSkill(groups, kw, ai)
  IN IF Len(groups) > 0
     THEN IF targetIdx < 0
          THEN TThrow("TypeError: Cannot read properties of undefined (reading 'keywords')")
          ELSE LET exists == toLowerCase(kw) \in LowerSetOf(groups[targetIdx + 1].keywords)
                   updated == IF exists THEN groups
                              ELSE [groups EXCEPT ![targetIdx + 1].keywords = Append(@, kw)]
               IN TOk("skills", stringifyGroupedSkills(updated))
     ELSE TOk("skills",
              (IF (IF appendWhenTrimmed THEN trim(skillsText) ELSE skillsText) # <<>>
               THEN skillsText \o CommaSpace ELSE <<>>) \o kw)

\* applySkillPatch(patch, resumeSections)
applySkillPatch(patch, sections, ai) ==
  LET skillsSection == OrEmpty(sections.skills)
  IN IF ~IsStr(patch.value)
     THEN TThrow("TypeError: Cannot read properties of undefined (reading 'toLowerCase')")
     ELSE IF includes(toLowerCase(skillsSection), toLowerCase(patch.value.s))
     THEN TFail("Skill already exists in resume")
     ELSE InsertKeyword(skillsSection, patch.value.s, ai, TRUE)

\* applyKeywordPatch(patch, resumeSections)
applyKeywordPatch(patch, sections, ai) ==
  LET currentContent == OrEmpty(sections.skills)
  IN IF ~IsStr(patch.value)
     THEN TThrow("TypeError: Cannot read properties of undefined (reading 'toLowerCase')")
     ELSE IF includes(toLowerCase(currentContent), toLowerCase(patch.value.s))
     THEN TFail("Keyword already exists in resume")
     ELSE InsertKeyword(currentContent, patch.value.s, ai, FALSE)

\* two of the six phrases of applyEnhancementPatch, one chosen by Math.random
Enhancements ==
  LET IncludingFrameworks ==
        <<"i","n","c","l","u","d","i","n","g"," ","m","o","d","e",
          "r","n"," ","f","r","a","m","e","w","o","r","k","s"," ",
          "a","n","d"," ","t","o","o","l","s">>
      WithVersionControl ==
        <<"w","i","t","h"," ","v","e","r","s","i","o","n"," ","c",
          "o","n","t","r","o","l"," ","a","n","d"," ","b","e","s",
          "t"," ","p","r","a","c","t","i","c","e","s">>
  IN {WithVersionControl, IncludingFrameworks}

\* applyEnhancementPatch(patch, resumeSections)
applyEnhancementPatch(patch, sections, enhancement) ==
  LET SkillsWord == <<"s","k","i","l","l","s">>
      Expand == <<"e","x","p","a","n","d">>
  IN
  IF ~IsStr(patch.action)
  THEN TThrow("TypeError: Cannot read properties of undefined (reading 'includes')")
  ELSE LET targetSection == IF includes(patch.action.s, SkillsWord) THEN "skills" ELSE "experience"
           currentContent == OrEmpty(sections[targetSection])
       IN IF includes(patch.action.s, Expand)
          THEN TOk(targetSection, currentContent \o DotSpace \o enhancement)
          ELSE TFail("Enhancement type not supported")

\* applyExperiencePatch(patch, resumeSections)
applyExperiencePatch(patch, sections) ==
  LET Emphasis ==
        <<" ","(","K","e","y"," ","a","c","h","i","e","v","e","m",
          "e","n","t",":"," ","R","e","l","e","v","a","n","t"," ",
          "t","o"," ","t","a","r","g","e","t"," ","r","o","l","e",
          ")">>
      Emphasize == <<"e","m","p","h","a","s","i","z","e">>
  IN
  IF ~IsStr(patch.action)
  THEN TThrow("TypeError: Cannot read properties of undefined (reading 'includes')")
  ELSE IF includes(patch.action.s, Emphasize)
  THEN TOk("experience", OrEmpty(sections.experience) \o Emphasis)
  ELSE TFail("Experience enhancement type not supported")

\* applyExperienceAlignmentPatch(patch, resumeSections)
applyExperienceAlignmentPatch(patch, sections) ==
  LET RelevantOpen ==
        <<" ","(","R","e","l","e","v","a","n","t"," ","t","o"," ",
          "t","a","r","g","e","t"," ","r","o","l","e",":"," ">>
      EmphasizeRoleRelevance ==
        <<"e","m","p","h","a","s","i","z","e","_","r","o","l","e","_",
          "r","e","l","e","v","a","n","c","e">>
      experienceSection == OrEmpty(sections.experience)
      enhancementText == ValueText(patch.value)
  IN IF IsStr(patch.action) /\ patch.action.s = EmphasizeRoleRelevance
     THEN TOk("experience", experienceSection \o RelevantOpen \o enhancementText \o <<")">>)
     ELSE TOk("experience", experienceSection \o DotSpace \o enhancementText)

\* applyRoleEnhancementPatch(patch, resumeSections): every case of its
\* switch builds the same text
applyRoleEnhancementPatch(patch, sections) ==
  TOk("experience", OrEmpty(sections.experience) \o DotSpace \o ValueText(patch.value))

NewProject ==
  <<"R","e","l","e","v","a","n","t"," ","P","r","o","j","e",
    "c","t",":"," ","D","e","v","e","l","o","p","e","d"," ",
    "s","c","a","l","a","b","l","e"," ","s","o","l","u","t",
    "i","o","n"," ","w","i","t","h"," ","m","e","a","s","u",
    "r","a","b","l","e"," ","o","u","t","c","o","m","e","s">>

\* applyContentPatch(patch, resumeSections)
applyContentPatch(patch, sections) ==
  IF ~IsStr(patch.action)
  THEN TThrow("TypeError: Cannot read properties of undefined (reading 'includes')")
  ELSE IF includes(patch.action.s, AddProjectSection)
  THEN TOk("projects", IF Truthy(sections.projects)
                       THEN sections.projects.s \o NL \o NewProject ELSE NewProject)
  ELSE TFail("Content addition type not supported")

\* the text captured by /Add missing skills: (.+)/, <<>> when no match
CapturedSkills(rec) ==
  LET \* the pattern matches at offset o
      MatchesAt(r, o) ==
        /\ o + Len(AddMissing) < Len(r)
        /\ \A i \in 1..Len(AddMissing) : r[o + i] = AddMissing[i]
        /\ r[o + Len(AddMissing) + 1] # "\n"
      offs == {o \in 0..(Len(rec) - Len(AddMissing)) : MatchesAt(rec, o)}
  IN IF offs = {} THEN <<>>
     ELSE LET off == CHOOSE o \in offs : \A o2 \in offs : o <= o2
              rest == SubSeq(rec, off + Len(AddMissing) + 1, Len(rec))
          IN Head(SplitOn(rest, {"\n"}, 1))

\* applyRecommendationPatch(patch, resumeSections); split(', ') followed by
\* join(', ') gives the captured text back
applyRecommendationPatch(patch, sections) ==
  IF ~IsStr(patch.value)
  THEN TThrow("TypeError: Cannot read properties of undefined (reading 'includes')")
  ELSE LET skills == CapturedSkills(patch.value.s)
       IN IF skills # <<>>
          THEN TOk("skills", IF Truthy(sections.skills)
                             THEN sections.skills.s \o CommaSpace \o skills
                             ELSE skills)
          ELSE TFail("Recommendation type not supported")

\* applySinglePatch(patch, resumeSections)
applySinglePatch(patch, sections, ai, enhancement) ==
  CASE patch.type = "add_skill" -> applySkillPatch(patch, sections, ai)
    [] patch.type = "enhance_section" -> applyEnhancementPatch(patch, sections, enhancement)
    [] patch.type = "enhance_experience" -> applyExperiencePatch(patch, sections)
    [] patch.type = "align_experience" -> applyExperienceAlignmentPatch(patch, sections)
    [] patch.type = "role_enhancement" -> applyRoleEnhancementPatch(patch, sections)
    [] patch.type = "add_content" -> applyContentPatch(patch, sections)
    [] patch.type = "add_keyword" -> applyKeywordPatch(patch, sections, ai)
    [] patch.type = "recommendation_based" -> applyRecommendationPatch(patch, sections)
    [] OTHER -> TFail("Unknown patch type")

(***************************************************************************)
(* Candidate generation (nodes/analyze.js, nodes/suggest-patches.js)       *)
(***************************************************************************)

\* analyzeExperienceMatch: "met" ({match: true}), "missing" ('Missing
\* experience data') or "more_years" ('Need n more years of experience');
\* the job side is read from the posting, which has an experience section
ExperienceMatches(resumeExp) ==
  IF resumeExp = <<>> THEN {"missing"} ELSE {"met", "more_years"}

\* generateRecommendationsFromAI: the descriptions of the recommendations
\* of type add_skills (the only type generateContentPatches reads)
AddSkillsRecommendations(skillGaps) ==
  LET Take(q, n) == SubSeq(q, 1, IF Len(q) < n THEN Len(q) ELSE n)
  IN
  IF Len(skillGaps) > 0
  THEN << AddMissing \o join(Take(skillGaps, 5), CommaSpace) >>
  ELSE <<>>

\* generateSkillPatches(skillGaps, currentSkills, jobDescription) where
\* aiFilterSkills answered relevant
generateSkillPatches(relevant, currentSkills) ==
  [i \in 1..Len(relevant) |-> SkillPatch(relevant[i])]
  \o (IF Len(currentSkills) < 100 /\ Len(relevant) < 3
      THEN <<EnhanceSkillsSection>> ELSE <<>>)

\* generateJDInferredSkills(jobDescription, currentSkillsText) where the
\* model answered arr
generateJDInferredSkills(arr, currentSkillsText) ==
  LET existing == toLowerCase(currentSkillsText)
      kept == SelectIdx(arr, {i \in 1..Len(arr) :
                                /\ trim(arr[i]) # <<>>
                                /\ ~includes(existing, toLowerCase(trim(arr[i])))}, 1)
  IN [i \in 1..Len(kept) |-> JDSkillPatch(trim(kept[i]))]

\* generateExperienceAlignmentPatches(currentExperience, jobDescription)
\* where the model answered with the texts
generateExperienceAlignmentPatches(texts) ==
  [i \in 1..Len(texts) |-> ExperienceAlignment(i, texts[i])]

\* generateExperiencePatches(experienceMatch, currentExperience,
\* jobDescription) where the alignment model answered with the texts aligned
generateExperiencePatches(experienceMatch, currentExperience, aligned) ==
  LET AchievementWord == <<"a","c","h","i","e","v","e","m","e","n","t">>
      ProjectWord == <<"p","r","o","j","e","c","t">>
  IN
  (IF experienceMatch = "more_years" THEN <<HighlightExperience>> ELSE <<>>)
  \o generateExperienceAlignmentPatches(aligned)
  \o (IF /\ ~includes(currentExperience, ProjectWord)
         /\ ~includes(currentExperience, AchievementWord)
      THEN <<AddProjectExperience>> ELSE <<>>)

\* generateRoleSpecificEnhancements(currentExperience, jobDescription) where
\* the model answered with the texts
generateRoleSpecificEnhancements(texts) ==
  [i \in 1..Len(texts) |-> RoleEnhancement(i, texts[i])]

\* generateKeywordPatches(missingKeywords, resumeSections, jobDescription,
\* existingSkillValues) where aiFilterKeywords answered relevantKeywords
generateKeywordPatches(relevantKeywords, existingSkillValues) ==
  LET covered(keyword) ==
        \E i \in 1..Len(existingSkillValues) :
          \/ includes(toLowerCase(keyword), existingSkillValues[i])
          \/ includes(existingSkillValues[i], toLowerCase(keyword))
      kept == SelectIdx(relevantKeywords,
                        {i \in 1..Len(relevantKeywords) : ~covered(relevantKeywords[i])}, 1)
  IN [i \in 1..Len(kept) |-> KeywordPatch(kept[i])]

\* generateContentPatches(recommendations, resumeSections)
generateContentPatches(recommendations) ==
  [i \in 1..Len(recommendations) |-> RecommendationPatch(recommendations[i])]

\* generatePatches(analysis, resumeSections, jobDescription): jd is the
\* truth value of the string jobDescription
generatePatches(an, sections, jd, relevant, jdArr, aligned, roleTexts, keywords) ==
  LET before ==
        (IF Len(an.skillGaps) > 0
         THEN generateSkillPatches(relevant, OrEmpty(sections.skills)) ELSE <<>>)
        \o (IF jd THEN generateJDInferredSkills(jdArr, OrEmpty(sections.skills))
            ELSE <<>>)
        \o (IF an.experienceMatch # "met"
            THEN generateExperiencePatches(an.experienceMatch,
                                           OrEmpty(sections.experience), aligned)
            ELSE <<>>)
        \o (IF jd /\ Truthy(sections.experience)
            THEN generateRoleSpecificEnhancements(roleTexts) ELSE <<>>)
        \o generateContentPatches(an.recommendations)
      addSkill == SelectIdx(before, {i \in 1..Len(before) : before[i].type = "add_skill"}, 1)
      skillValues == [i \in 1..Len(addSkill) |-> toLowerCase(addSkill[i].value.s)]
      collected == before \o generateKeywordPatches(keywords, skillValues)
  IN SortByPriority(deduplicatePatches(collected))

(***************************************************************************)
(* State                                                                   *)
(***************************************************************************)
VARIABLES
  node,            \* the node the graph runs next, END, or THROWN
  errors,          \* channel errors (concat reducer)
  retry_count,     \* channel retry_count
  jd_text,         \* channel jd_text: Null or Str
  jd_url,          \* channel jd_url: "none", "invalid" or "valid"
  jobDescription,  \* channel jobDescription
  analysis,        \* channel analysis
  patches,         \* channel patches (concat reducer)
  approvedPatches, \* channel approvedPatches
  resume,          \* channel resume
  auto_apply,      \* channel auto_apply
  outcome,         \* what the caller of the run got: "running", "returned", "threw"
  apc,             \* approve_patches: "idle" or "prompt" (inside the loop)
  pending,         \* approve_patches: proposals not yet presented
  acc,             \* approve_patches: local approvedPatches of the loop
  decided,         \* approve_patches: decision taken for each presented proposal
  presented,       \* approve_patches: the proposals the stage was entered with
  app,             \* apply_patches: "idle", "json" or "text"
  queue,           \* apply_patches: proposals the running loop still has to visit
  updatedJson,     \* apply_patches: the in-progress document
  updatedSections, \* apply_patches: the in-progress text sections
  appliedPatches,  \* apply_patches: local appliedPatches
  failedPatches,   \* apply_patches: local failedPatches
  lastAttempt,     \* apply_patches: the last structural attempt (observation)
  attempted,       \* apply_patches: proposals visited by a loop (observation)
  execs,           \* how often each node has run (observation)
  lastNode,        \* the node that ran last (observation)
  parseFailures,   \* how often parse_resume has thrown (observation)
  args,            \* a helper called on its own: its name and its argument
  ret              \* a helper called on its own: its return value, once it returned

chans == <<errors, retry_count, jd_text, jd_url, jobDescription, analysis,
           patches, approvedPatches, resume, auto_apply>>
approveVars == <<apc, pending, acc, decided, presented>>
applyVars == <<app, queue, updatedJson, updatedSections, appliedPatches,
               failedPatches, lastAttempt, attempted>>
obsVars == <<execs, lastNode, parseFailures>>
callVars == <<args, ret>>
vars == <<node, chans, outcome, approveVars, applyVars, obsVars, callVars>>

NoSections == [basics |-> Null, experience |-> Null, education |-> Null,
               skills |-> Null, projects |-> Null]
\* channel resume before start has run (null)
NoResume ==
  [set |-> FALSE, parsed |-> FALSE, hasContent |-> FALSE, json |-> DocEmpty,
   hasSections |-> FALSE, sections |-> NoSections, originalSections |-> NoSections,
   patched |-> "undefined", appliedPatches |-> <<>>, failedPatches |-> <<>>]

\* the initialState of resumePatch(resumePath, options) (workflow.js:299-319)
InitWith(errs, calls) ==
  LET NoAnalysis == [set |-> FALSE, skillGaps |-> <<>>, experienceMatch |-> "met",
                     recommendations |-> <<>>]
      \* options.jd_text and options.jd_url as the caller passes them: no posting,
      \* a posting as text, a blank text, a link that is no http(s) URL, a link
      \* that is one
      JDInputs ==
        { <<Null, "none">>, <<Null, "invalid">>, <<Null, "valid">>,
          <<Str(Blank), "none">>, <<Str(JdBody), "none">> }
      NoAttempt == [made |-> FALSE, patch |-> EnhanceSkillsSection, before |-> DocEmpty,
                    after |-> DocEmpty, applied |-> FALSE, reason |-> "", ops |-> <<>>]
      \* url: the record has the key url (source 'url')
      NoJobDescription == [set |-> FALSE, content |-> Null, hasSections |-> FALSE,
                           url |-> FALSE]
  IN
  /\ node = "start"
  /\ errors = errs
  /\ retry_count = 0
  /\ \E input \in JDInputs : jd_text = input[1] /\ jd_url = input[2]
  /\ jobDescription = NoJobDescription
  /\ analysis = NoAnalysis
  /\ patches = <<>>
  /\ approvedPatches = <<>>
  /\ resume = NoResume
  /\ auto_apply \in BOOLEAN
  /\ outcome = "running"
  /\ apc = "idle" /\ pending = <<>> /\ acc = <<>> /\ decided = <<>>
  /\ presented = <<>>
  /\ app = "idle" /\ queue = <<>> /\ updatedJson = DocEmpty
  /\ updatedSections = NoSections
  /\ appliedPatches = <<>> /\ failedPatches = <<>>
  /\ lastAttempt = NoAttempt /\ attempted = <<>>
  /\ execs = [n \in NodeNames |-> 0]
  /\ lastNode = "none"
  /\ parseFailures = 0
  /\ args \in calls
  /\ ret = [of |-> "none", value |-> <<>>]

\* no helper is called on its own
NoCall == [fn |-> "none", patches |-> <<>>, groups |-> <<>>, keyword |-> <<>>, ai |-> AiFail]

Init == InitWith(<<>>, {NoCall})

\* createWorkflow().invoke(state) called directly: the caller chooses the
\* initial errors list
GraphInit == \E errs \in SeqsUpTo({"e"}, MaxInitErrors) : InitWith(errs, {NoCall})

(***************************************************************************)
(* Routing functions of the conditional edges (workflow.js:129-242)        *)
(***************************************************************************)
\* a parse router that allows a third retry
parseRouterRetryingThrice(errs, rc, res) ==
  IF Len(errs) > 0
  THEN (IF rc < 3 THEN "retry_parse" ELSE "handle_error")
  ELSE IF res.set /\ res.parsed /\ res.hasContent THEN "fetch_jd" ELSE "handle_error"

parseRouter(errs, rc, res) ==
  IF Len(errs) > 0
  THEN (IF rc < 2 THEN "retry_parse" ELSE "handle_error")
  ELSE IF res.set /\ res.parsed /\ res.hasContent THEN "fetch_jd" ELSE "handle_error"

fetchRouter(errs, rc, text) ==
  IF Len(errs) > 0
  THEN (IF rc < 2 THEN "retry_fetch" ELSE "handle_error")
  ELSE IF Truthy(text) THEN "analyze" ELSE "handle_error"

analyzeRouter(errs) == IF Len(errs) > 0 THEN "handle_error" ELSE "suggest_patches"

\* a router that sends every list of proposals to the approval prompt
suggestRouterAlwaysApproving(errs, ps) ==
  IF Len(errs) > 0 THEN "handle_error" ELSE "approve_patches"

suggestRouter(errs, ps) ==
  IF Len(errs) > 0 THEN "handle_error"
  ELSE IF Len(ps) > 0 THEN "approve_patches" ELSE "export"

exportRouter(errs) == IF Len(errs) > 0 THEN "handle_error" ELSE END

\* the keys of the destination map of every conditional edge; "end" is the
\* key of END
Destinations ==
  [parse_resume    |-> {"retry_parse", "fetch_jd", "handle_error"},
   fetch_jd        |-> {"retry_fetch", "analyze", "handle_error"},
   analyze         |-> {"suggest_patches", "handle_error"},
   suggest_patches |-> {"approve_patches", "export"},
   export          |-> {END, "handle_error"}]

\* bookkeeping of one node execution
Ran(n) ==
  /\ execs' = [execs EXCEPT ![n] = @ + 1]
  /\ lastNode' = n
  /\ UNCHANGED callVars

\* a node returned {...state, ...}: the channels with a concat reducer
\* receive their own current value as the update
SpreadErrors == ConcatReducer(errors, errors)
SpreadPatches == ConcatReducer(patches, patches)

(***************************************************************************)
(* Nodes                                                                   *)
(***************************************************************************)
\* a node that threw is handed to the retry node
ThrowsIntoRetry ==
  /\ node' = "retry_parse"
  /\ UNCHANGED chans

\* a node that catches its failure and returns it as an entry of errors
ThrowsRecordingError ==
  /\ node' = "handle_error"
  /\ errors' = ConcatReducer(errors, <<"e">>)
  /\ UNCHANGED <<retry_count, jd_text, jd_url, jobDescription, analysis, patches,
                 approvedPatches, resume, auto_apply>>

\* a node threw: workflow.invoke rejects, no channel is updated
Throws ==
  /\ node' = THROWN
  /\ UNCHANGED chans

\* startNode (nodes/start.js:5-50), then the edge start -> parse_resume
Start ==
  /\ node = "start"
  /\ Ran("start")
  /\ \E valid \in BOOLEAN :
       IF valid
       THEN /\ resume' = [NoResume EXCEPT !.set = TRUE]
            /\ errors' = SpreadErrors
            /\ patches' = SpreadPatches
            /\ node' = "parse_resume"
            /\ UNCHANGED <<retry_count, jd_text, jd_url, jobDescription, analysis,
                           approvedPatches, auto_apply>>
       ELSE Throws
  /\ UNCHANGED <<outcome, approveVars, applyVars, parseFailures>>

\* parseResumeNode (nodes/parse-resume.js:200-234), then the conditional
\* edge of parse_resume
ParseResume ==
  /\ node = "parse_resume"
  /\ Ran("parse_resume")
  /\ \E ok \in BOOLEAN, doc \in Documents :
       IF ok
       THEN /\ resume' = [resume EXCEPT !.parsed = TRUE, !.hasContent = TRUE, !.json = doc]
            /\ errors' = SpreadErrors
            /\ patches' = SpreadPatches
            /\ node' = parseRouter(errors', retry_count, resume')
            /\ UNCHANGED <<retry_count, jd_text, jd_url, jobDescription, analysis,
                           approvedPatches, auto_apply, parseFailures>>
       ELSE /\ Throws
            /\ parseFailures' = parseFailures + 1
  /\ UNCHANGED <<outcome, approveVars, applyVars>>

\* retryParseNode (workflow.js:270-280), then the edge retry_parse ->
\* parse_resume.  The update carries errors: [], which the concat reducer
\* appends to the channel.
RetryParse ==
  /\ node = "retry_parse"
  /\ Ran("retry_parse")
  /\ retry_count' = LastValueReducer(retry_count, retry_count + 1)
  /\ errors' = ConcatReducer(errors, <<>>)
  /\ patches' = SpreadPatches
  /\ node' = "parse_resume"
  /\ UNCHANGED <<jd_text, jd_url, jobDescription, analysis, approvedPatches,
                 resume, auto_apply>>
  /\ UNCHANGED <<outcome, approveVars, applyVars, parseFailures>>

\* fetchJDNode (nodes/fetch-jd.js:5-63), then the conditional edge of
\* fetch_jd
FetchJD ==
  LET \* the texts a fetched page may convert to (htmlToText), before trim
      FetchedTexts == {JdBody, Blank}
  IN
  /\ node = "fetch_jd"
  /\ Ran("fetch_jd")
  /\ \E fetched \in BOOLEAN, html \in FetchedTexts :
       /\ IF IsStr(jd_text) /\ Len(trim(jd_text.s)) > 0
          THEN /\ jobDescription' = [set |-> TRUE, content |-> Str(trim(jd_text.s)),
                                     hasSections |-> TRUE, url |-> FALSE]
               /\ jd_text' = Str(trim(jd_text.s))
          ELSE IF jd_url = "valid"
          THEN IF fetched
               THEN /\ jobDescription' = [set |-> TRUE, content |-> Str(trim(html)),
                                          hasSections |-> TRUE, url |-> TRUE]
                    /\ jd_text' = Str(trim(html))
               ELSE /\ jobDescription' = [set |-> TRUE, content |-> Null,
                                          hasSections |-> FALSE, url |-> TRUE]
                    /\ jd_text' = jd_text
          ELSE \* ProcessingError caught: return { ...state, error }
               /\ jobDescription' = jobDescription
               /\ jd_text' = jd_text
       /\ errors' = SpreadErrors
       /\ patches' = SpreadPatches
       /\ node' = fetchRouter(errors', retry_count, jd_text')
  /\ UNCHANGED <<retry_count, jd_url, analysis, approvedPatches, resume, auto_apply>>
  /\ UNCHANGED <<outcome, approveVars, applyVars, parseFailures>>

\* analyzeNode (nodes/analyze.js:5-69), then the conditional edge of analyze
Analyze ==
  LET \* analysis.skillGaps (identifySkillGapsFromAI): the lower-cased job keywords
      \* that are no resume keywords, both lists being answers of the keyword
      \* extractor
      SkillGapLists ==
        LET cicd == <<"c","i","/","c","d">>
        IN {<<>>, <<cicd>>}
  IN
  /\ node = "analyze"
  /\ Ran("analyze")
  /\ IF ~Truthy(jobDescription.content) /\ ~jobDescription.hasSections
     THEN Throws
     ELSE /\ \E gaps \in SkillGapLists,
                m \in ExperienceMatches(OrEmpty(
                        getResumeSectionsFromJsonResume(resume.json).experience)) :
               analysis' = [set |-> TRUE, skillGaps |-> gaps, experienceMatch |-> m,
                            recommendations |-> AddSkillsRecommendations(gaps)]
          /\ errors' = SpreadErrors
          /\ patches' = SpreadPatches
          /\ node' = analyzeRouter(errors')
          /\ UNCHANGED <<retry_count, jd_text, jd_url, jobDescription,
                         approvedPatches, resume, auto_apply>>
  /\ UNCHANGED <<outcome, approveVars, applyVars, parseFailures>>

\* suggestPatchesNode (nodes/suggest-patches.js:4-58), then the conditional
\* edge of suggest_patches
SuggestPatches ==
  LET \* the answers of aiFilterKeywords: trimmed, distinct, none of them generic
      KeywordLists == {<<>>, <<Docker>>}
      \* the texts of the answers of the model asked by
      \* generateRoleSpecificEnhancements
      RoleTextLists == {<<>>, <<Built>>}
      \* the texts of the answers of the model asked by
      \* generateExperienceAlignmentPatches
      AlignedTextLists == {<<>>, <<Owned>>}
      \* the answers of the model asked by generateJDInferredSkills
      JDSkillLists == {<<>>, <<React>>}
      \* the answers of aiFilterSkills: distinct skills; of the two orders of
      \* a pair, the one that names the skill the resume lacks first
      RelevantSkillLists ==
        LET \* lists without a repeated element
            Distinct(q) == \A i, j \in 1..Len(q) : i # j => q[i] # q[j]
        IN {q \in SeqsUpTo({React, Python}, MaxPatches) :
              Distinct(q) /\ q # <<Python, React>>}
  IN
  /\ node = "suggest_patches"
  /\ Ran("suggest_patches")
  /\ \E ok \in BOOLEAN, relevant \in RelevantSkillLists, jdArr \in JDSkillLists,
        aligned \in AlignedTextLists, roleTexts \in RoleTextLists,
        keywords \in KeywordLists :
       IF ok /\ analysis.set
       THEN /\ Len(relevant) + Len(jdArr) + Len(aligned) + Len(roleTexts) + Len(keywords)
                 <= MaxPatches
            \* an alignment answer is combined with the answers about the
            \* experience section only
            /\ aligned # <<>> => (relevant = <<>> /\ jdArr = <<>> /\ keywords = <<>>)
            /\ patches' = ConcatReducer(patches,
                 generatePatches(analysis, getResumeSectionsFromJsonResume(resume.json),
                                 jobDescription.url, relevant, jdArr, aligned, roleTexts, keywords))
            /\ errors' = SpreadErrors
            /\ node' = suggestRouter(errors', patches')
            /\ UNCHANGED <<retry_count, jd_text, jd_url, jobDescription, analysis,
                           approvedPatches, resume, auto_apply>>
       ELSE Throws
  /\ UNCHANGED <<outcome, approveVars, applyVars, parseFailures>>

(***************************************************************************)
(* approve_patches (nodes/approve-patches.js)                              *)
(***************************************************************************)
\* an approve stage that returns the proposals last to first
ApproveReturnsReversed(approved) ==
  /\ approvedPatches' = LastValueReducer(approvedPatches,
                          [i \in 1..Len(approved) |-> approved[Len(approved) + 1 - i]])
  /\ errors' = SpreadErrors
  /\ patches' = SpreadPatches
  /\ node' = "apply_patches"
  /\ UNCHANGED <<retry_count, jd_text, jd_url, jobDescription, analysis, resume, auto_apply>>

\* approvePatchesNode returns { ...state, approvedPatches }, then the edge
\* approve_patches -> apply_patches
ApproveReturns(approved) ==
  /\ approvedPatches' = LastValueReducer(approvedPatches, approved)
  /\ errors' = SpreadErrors
  /\ patches' = SpreadPatches
  /\ node' = "apply_patches"
  /\ UNCHANGED <<retry_count, jd_text, jd_url, jobDescription, analysis, resume, auto_apply>>

\* approvePatchesNode up to the first prompt (lines 7-35)
ApproveBegin ==
  /\ node = "approve_patches"
  /\ apc = "idle"
  /\ Ran("approve_patches")
  /\ presented' = patches
  /\ IF Len(patches) = 0
     THEN /\ ApproveReturns(<<>>)
          /\ UNCHANGED <<apc, pending, acc, decided>>
     ELSE IF auto_apply
     THEN /\ ApproveReturns(patches)
          /\ decided' = [i \in 1..Len(patches) |-> "applied"]
          /\ UNCHANGED <<apc, pending, acc>>
     ELSE /\ apc' = "prompt"
          /\ pending' = patches
          /\ acc' = <<>>
          /\ decided' = <<>>
          /\ UNCHANGED <<node, chans>>
  /\ UNCHANGED <<outcome, applyVars, parseFailures>>

\* presentSinglePatch(patch, currentIndex, totalCount) for answers action
\* and finalAction.  "pause" evaluates pauseAndReviewAllPatches(patches, ...)
\* where no binding patches is in scope: a ReferenceError.
presentSinglePatch(action, finalAction) ==
  IF action = "details" THEN [threw |-> FALSE, isApproved |-> finalAction = "apply"]
  ELSE IF action = "pause" THEN [threw |-> TRUE, isApproved |-> FALSE]
  ELSE [threw |-> FALSE, isApproved |-> action = "apply"]

\* one iteration of the loop of presentPatchesForApproval (lines 62-69);
\* after the last one approvePatchesNode returns (lines 37-47); an error is
\* rethrown as ProcessingError (lines 48-53)
ApproveDecide ==
  LET \* the choices of the prompt after "details" (lines 133-136)
      FinalActions == {"apply", "skip"}
      \* the choices of the first prompt of presentSinglePatch (lines 107-112)
      Actions == {"apply", "skip", "details", "pause"}
  IN
  /\ node = "approve_patches"
  /\ apc = "prompt"
  /\ pending # <<>>
  /\ \E action \in Actions, finalAction \in FinalActions :
       LET r == presentSinglePatch(action, finalAction)
           acc2 == IF r.isApproved THEN Append(acc, Head(pending)) ELSE acc
       IN IF r.threw
          THEN /\ Throws
               /\ apc' = "idle"
               /\ UNCHANGED <<pending, acc, decided, presented>>
          ELSE /\ acc' = acc2
               /\ pending' = Tail(pending)
               /\ decided' = Append(decided, IF r.isApproved THEN "applied" ELSE "skipped")
               /\ UNCHANGED presented
               /\ IF Tail(pending) = <<>>
                  THEN /\ ApproveReturns(acc2)
                       /\ apc' = "idle"
                  ELSE /\ UNCHANGED <<node, chans>>
                       /\ apc' = apc
  /\ UNCHANGED <<outcome, applyVars, obsVars, callVars>>

(***************************************************************************)
(* apply_patches (nodes/apply-patches.js)                                  *)
(***************************************************************************)
Applied(p, via, section) == [patch |-> p, via |-> via, section |-> section]
Failed(p, via, reason) == [patch |-> p, via |-> via, reason |-> reason]

\* the text pass taking its proposals from the whole proposal list
NotYetAppliedOfAllProposals(approved, applied) ==
  LET IdsOf(entries) == {entries[i].patch.id : i \in 1..Len(entries)}
  IN
  SelectIdx(presented, {i \in 1..Len(presented) : presented[i].id \notin IdsOf(applied)}, 1)

\* state.approvedPatches.filter(p => !appliedPatches.find(ap => ap.id === p.id))
NotYetApplied(approved, applied) ==
  LET IdsOf(entries) == {entries[i].patch.id : i \in 1..Len(entries)}
  IN
  SelectIdx(approved, {i \in 1..Len(approved) : approved[i].id \notin IdsOf(applied)}, 1)

\* a loop that ends at the first proposal that fails
RemainingUntilFailure(q, succeeded) == IF succeeded THEN Tail(q) ELSE <<>>

\* the proposals the loops of applyPatchesToJsonResume and
\* applyPatchesToResume still visit after one iteration: the catch block
\* records the failure and the loop goes on
Remaining(q, succeeded) == Tail(q)

\* applyPatchesNode returns { ...state, resume }, then the edge
\* apply_patches -> export
ApplyReturns(res) ==
  /\ resume' = LastValueReducer(resume, res)
  /\ errors' = SpreadErrors
  /\ patches' = SpreadPatches
  /\ node' = "export"
  /\ UNCHANGED <<retry_count, jd_text, jd_url, jobDescription, analysis,
                 approvedPatches, auto_apply>>

\* applyPatchesNode up to the first iteration of the structural loop
\* (lines 6-34 and 134-137)
ApplyBegin ==
  /\ node = "apply_patches"
  /\ app = "idle"
  /\ Ran("apply_patches")
  /\ IF Len(approvedPatches) = 0
     THEN /\ ApplyReturns([resume EXCEPT !.patched = "false", !.appliedPatches = <<>>])
          /\ UNCHANGED applyVars
     ELSE /\ app' = "json"
          /\ queue' = approvedPatches
          /\ updatedJson' = resume.json
          /\ appliedPatches' = <<>>
          /\ failedPatches' = <<>>
          /\ attempted' = <<>>
          /\ UNCHANGED <<node, chans, updatedSections, lastAttempt>>
  /\ UNCHANGED <<outcome, approveVars, parseFailures>>

\* a structural pass of which every iteration works on the document the
\* stage was entered with, whatever the iterations before have done to it
ApplyJsonStepOnEnteredDocument ==
  LET \* the answers the structural pass can get for proposal p: the categorizer
      \* is asked by pickSkillsGroupIndexForKeyword only, which only
      \* buildJsonPatchOpsForPatch calls, for a proposal without operations of its
      \* own (apply-patches.js:142-145, 291-296)
      JsonAnswers(p, doc) ==
        IF p.jsonPatch = <<>> /\ p.type \in {"add_skill", "add_keyword"} /\ Truthy(p.value)
        THEN AiAnswers(Len(doc.skills)) ELSE {AiFail}
  IN
  /\ node = "apply_patches"
  /\ app = "json"
  /\ queue # <<>>
  /\ \E ai \in JsonAnswers(Head(queue), updatedJson) :
       LET p == Head(queue)
           r == JsonStep(p, resume.json, ai)
           applied2 == IF r.applied THEN Append(appliedPatches, Applied(p, "json", "json"))
                       ELSE appliedPatches
       IN /\ updatedJson' = r.doc
          /\ appliedPatches' = applied2
          /\ failedPatches' = IF r.applied THEN failedPatches
                              ELSE Append(failedPatches, Failed(p, "json", r.reason))
          /\ lastAttempt' = [made |-> TRUE, patch |-> p, before |-> resume.json,
                             after |-> r.doc, applied |-> r.applied,
                             reason |-> r.reason, ops |-> r.ops]
          /\ attempted' = Append(attempted, p)
          /\ IF Remaining(queue, r.applied) = <<>>
             THEN /\ app' = "text"
                  /\ queue' = NotYetApplied(approvedPatches, applied2)
                  /\ updatedSections' = getResumeSectionsFromJsonResume(r.doc)
             ELSE /\ app' = app
                  /\ queue' = Remaining(queue, r.applied)
                  /\ UNCHANGED updatedSections
  /\ UNCHANGED <<node, chans, outcome, approveVars, obsVars, callVars>>

\* one iteration of the loop of applyPatchesToJsonResume (lines 139-163);
\* after the last one, lines 41-56 of applyPatchesNode
ApplyJsonStep ==
  LET \* the answers the structural pass can get for proposal p: the categorizer
      \* is asked by pickSkillsGroupIndexForKeyword only, which only
      \* buildJsonPatchOpsForPatch calls, for a proposal without operations of its
      \* own (apply-patches.js:142-145, 291-296)
      JsonAnswers(p, doc) ==
        IF p.jsonPatch = <<>> /\ p.type \in {"add_skill", "add_keyword"} /\ Truthy(p.value)
        THEN AiAnswers(Len(doc.skills)) ELSE {AiFail}
  IN
  /\ node = "apply_patches"
  /\ app = "json"
  /\ queue # <<>>
  /\ \E ai \in JsonAnswers(Head(queue), updatedJson) :
       LET p == Head(queue)
           r == JsonStep(p, updatedJson, ai)
           applied2 == IF r.applied THEN Append(appliedPatches, Applied(p, "json", "json"))
                       ELSE appliedPatches
       IN /\ updatedJson' = r.doc
          /\ appliedPatches' = applied2
          /\ failedPatches' = IF r.applied THEN failedPatches
                              ELSE Append(failedPatches, Failed(p, "json", r.reason))
          /\ lastAttempt' = [made |-> TRUE, patch |-> p, before |-> updatedJson,
                             after |-> r.doc, applied |-> r.applied,
                             reason |-> r.reason, ops |-> r.ops]
          /\ attempted' = Append(attempted, p)
          /\ IF Remaining(queue, r.applied) = <<>>
             THEN /\ app' = "text"
                  /\ queue' = NotYetApplied(approvedPatches, applied2)
                  /\ updatedSections' = getResumeSectionsFromJsonResume(r.doc)
             ELSE /\ app' = app
                  /\ queue' = Remaining(queue, r.applied)
                  /\ UNCHANGED updatedSections
  /\ UNCHANGED <<node, chans, outcome, approveVars, obsVars, callVars>>

\* one iteration of the loop of applyPatchesToResume (lines 101-128)
ApplyTextStep ==
  LET \* the phrases Math.random can pick for proposal p (apply-patches.js:415-424)
      TextEnhancements(p) ==
        IF p.type = "enhance_section" THEN Enhancements ELSE {CHOOSE e \in Enhancements : TRUE}
      \* the answers the textual pass can get for proposal p: the categorizer is
      \* asked by pickGroupForSkill (apply-patches.js:389, 592)
      TextAnswers(p, sections) ==
        IF p.type \in {"add_skill", "add_keyword"}
        THEN AiAnswers(Len(extractGroupedSkillsText(OrEmpty(sections.skills))))
        ELSE {AiFail}
  IN
  /\ node = "apply_patches"
  /\ app = "text"
  /\ queue # <<>>
  /\ \E ai \in TextAnswers(Head(queue), updatedSections),
        enhancement \in TextEnhancements(Head(queue)) :
       LET p == Head(queue)
           r == applySinglePatch(p, updatedSections, ai, enhancement)
       IN /\ updatedSections' = IF r.kind = "ok"
                                THEN [updatedSections EXCEPT ![r.section] = Str(r.content)]
                                ELSE updatedSections
          /\ appliedPatches' = IF r.kind = "ok"
                               THEN Append(appliedPatches, Applied(p, "text", r.section))
                               ELSE appliedPatches
          /\ failedPatches' = IF r.kind = "ok" THEN failedPatches
                              ELSE Append(failedPatches, Failed(p, "text", r.reason))
          /\ attempted' = Append(attempted, p)
          /\ queue' = Remaining(queue, r.kind = "ok")
  /\ UNCHANGED <<app, updatedJson, lastAttempt>>
  /\ UNCHANGED <<node, chans, outcome, approveVars, obsVars, callVars>>

\* an apply stage that reads originalSections off the document after the
\* structural pass has edited it
ApplyFinishOriginalFromPatched ==
  /\ node = "apply_patches"
  /\ app = "text"
  /\ queue = <<>>
  /\ ApplyReturns([resume EXCEPT
                     !.patched = "true",
                     !.json = updatedJson,
                     !.hasSections = TRUE,
                     !.sections = updatedSections,
                     !.originalSections = getResumeSectionsFromJsonResume(updatedJson),
                     !.appliedPatches = appliedPatches,
                     !.failedPatches = failedPatches])
  /\ app' = "idle"
  /\ UNCHANGED <<queue, updatedJson, updatedSections, appliedPatches, failedPatches,
                 lastAttempt, attempted>>
  /\ UNCHANGED <<outcome, approveVars, obsVars, callVars>>

\* the rest of applyPatchesNode (lines 57-87)
ApplyFinish ==
  /\ node = "apply_patches"
  /\ app = "text"
  /\ queue = <<>>
  /\ ApplyReturns([resume EXCEPT
                     !.patched = "true",
                     !.json = updatedJson,
                     !.hasSections = TRUE,
                     !.sections = updatedSections,
                     !.originalSections = getResumeSectionsFromJsonResume(resume.json),
                     !.appliedPatches = appliedPatches,
                     !.failedPatches = failedPatches])
  /\ app' = "idle"
  /\ UNCHANGED <<queue, updatedJson, updatedSections, appliedPatches, failedPatches,
                 lastAttempt, attempted>>
  /\ UNCHANGED <<outcome, approveVars, obsVars, callVars>>

(***************************************************************************)
(* export, handle_error and the end of the run                             *)
(***************************************************************************)
\* exportNode (nodes/export.js), then the conditional edge of export
Export ==
  /\ node = "export"
  /\ Ran("export")
  /\ \E ok \in BOOLEAN :
       IF ok /\ resume.patched = "true" /\ (resume.hasSections \/ resume.hasContent)
       THEN /\ errors' = SpreadErrors
            /\ patches' = SpreadPatches
            /\ node' = exportRouter(errors')
            /\ UNCHANGED <<retry_count, jd_text, jd_url, jobDescription, analysis,
                           approvedPatches, resume, auto_apply>>
       ELSE Throws
  /\ UNCHANGED <<outcome, approveVars, applyVars, parseFailures>>

\* handleErrorNode (workflow.js:252-267), then the edge handle_error -> END
HandleError ==
  /\ node = "handle_error"
  /\ Ran("handle_error")
  /\ errors' = SpreadErrors
  /\ patches' = SpreadPatches
  /\ node' = END
  /\ UNCHANGED <<retry_count, jd_text, jd_url, jobDescription, analysis,
                 approvedPatches, resume, auto_apply>>
  /\ UNCHANGED <<outcome, approveVars, applyVars, parseFailures>>

\* resumePatch after workflow.invoke settles (workflow.js:321-342)
ResumePatchDone ==
  /\ node \in {END, THROWN}
  /\ outcome = "running"
  /\ outcome' = IF node = THROWN \/ Len(errors) > 0 THEN "threw" ELSE "returned"
  /\ UNCHANGED <<node, chans, approveVars, applyVars, obsVars, callVars>>

\* the promise of a direct workflow.invoke settles
InvokeDone ==
  /\ node \in {END, THROWN}
  /\ outcome = "running"
  /\ outcome' = IF node = THROWN THEN "threw" ELSE "returned"
  /\ UNCHANGED <<node, chans, approveVars, applyVars, obsVars, callVars>>

Nodes ==
  \/ Start
  \/ ParseResume
  \/ FetchJD
  \/ Analyze
  \/ SuggestPatches
  \/ ApproveBegin
  \/ ApproveDecide
  \/ ApplyBegin
  \/ ApplyJsonStep
  \/ ApplyTextStep
  \/ ApplyFinish
  \/ Export
  \/ HandleError

(***************************************************************************)
(* deduplicatePatches, enforceCategoryLimit and the category resolvers     *)
(* called on their own                                                     *)
(***************************************************************************)
\* the argument lists: candidates as generateSkillPatches builds them,
\* groups as extractGroupedSkillsText returns them (a name, and keywords
\* that are distinct within the group), and for the resolvers a list of
\* groups, a keyword and the answer of the classifier; base is the record of
\* no call
CallArgs(base) ==
  LET react == <<"r","e","a","c","t">>
      ReactJs == <<"R","e","a","c","t",".","j","s">>
      python == <<"p","y","t","h","o","n">>
      Candidates == {SkillPatch(React), SkillPatch(react), SkillPatch(ReactJs),
                     SkillPatch(Python), SkillPatch(Docker)}
      Frontend == <<"F","r","o","n","t","e","n","d">>
      Tools == <<"T","o","o","l","s">>
      Groups == {Group(Core, <<Python, Docker>>), Group(Backend, <<Python>>),
                 Group(Frontend, <<React>>), Group(Skills, <<python, React>>),
                 Group(Tools, <<Docker>>)}
      Go == <<"G","o">>
      Resolvers == {"pickSkillsGroupIndexForKeyword", "pickGroupForSkill"}
  IN {[base EXCEPT !.fn = "deduplicatePatches", !.patches = ps] :
        ps \in SeqsUpTo(Candidates, MaxProposals)}
     \cup {[base EXCEPT !.fn = "enforceCategoryLimit", !.groups = gs] :
             gs \in SeqsUpTo(Groups, MaxGroups)}
     \cup UNION {{[base EXCEPT !.fn = f, !.groups = gs, !.keyword = kw, !.ai = ai] :
                    f \in Resolvers, kw \in {python, Docker, Go, Backend},
                    ai \in AiAnswers(Len(gs))} :
                  gs \in SeqsUpTo(Groups, MaxListed)}

CallInit ==
  /\ InitWith(<<>>, CallArgs(NoCall))
  /\ jd_text = Null /\ jd_url = "none" /\ ~auto_apply

\* deduplicatePatches(patches) returns
CallDeduplicate ==
  /\ args.fn = "deduplicatePatches"
  /\ ret.of = "none"
  /\ ret' = [of |-> args.fn, value |-> deduplicatePatches(args.patches)]
  /\ UNCHANGED <<node, chans, outcome, approveVars, applyVars, obsVars, args>>

\* enforceCategoryLimit(groups) returns (maxCategories takes its default)
CallEnforce ==
  /\ args.fn = "enforceCategoryLimit"
  /\ ret.of = "none"
  /\ ret' = [of |-> args.fn, value |-> enforceCategoryLimit(args.groups, MaxCategories)]
  /\ UNCHANGED <<node, chans, outcome, approveVars, applyVars, obsVars, args>>

\* pickSkillsGroupIndexForKeyword(skills, keyword) returns
CallPickSkillsGroup ==
  /\ args.fn = "pickSkillsGroupIndexForKeyword"
  /\ ret.of = "none"
  /\ ret' = [of |-> args.fn,
             value |-> pickSkillsGroupIndexForKeyword(args.groups, args.keyword, args.ai)]
  /\ UNCHANGED <<node, chans, outcome, approveVars, applyVars, obsVars, args>>

\* pickGroupForSkill(groups, skill) returns
CallPickGroup ==
  /\ args.fn = "pickGroupForSkill"
  /\ ret.of = "none"
  /\ ret' = [of |-> args.fn, value |-> pickGroupForSkill(args.groups, args.keyword, args.ai)]
  /\ UNCHANGED <<node, chans, outcome, approveVars, applyVars, obsVars, args>>

CallNext == CallDeduplicate \/ CallEnforce \/ CallPickSkillsGroup \/ CallPickGroup
CallSpec == CallInit /\ [][CallNext]_vars

\* a run started by resumePatch
Next == Nodes \/ ResumePatchDone
Spec == Init /\ [][Next]_vars

\* the runtime runs the node that is due, every prompt is answered
\* and the promise of invoke settles
FairSpec == Spec /\ WF_vars(Next)

\* a run of the compiled graph started by a direct invoke
GraphNext == Nodes \/ RetryParse \/ InvokeDone
GraphSpec == GraphInit /\ [][GraphNext]_vars

(***************************************************************************)
(* Properties                                                              *)
(***************************************************************************)
\* C1: a run in which every execution of parse failed has executed parse
\* exactly 3 times and retry_parse exactly twice, has then passed through
\* the error state, and ends with retry_count = 2.
C1_RetryBound ==
  (outcome # "running" /\ parseFailures > 0 /\ parseFailures = execs["parse_resume"])
    => /\ execs["parse_resume"] = 3
       /\ execs["retry_parse"] = 2
       /\ execs["handle_error"] = 1
       /\ retry_count = 2

C3_ParseSuccessor ==
  [][(node = "parse_resume")
       => (node' = IF parseFailures' > parseFailures
                   THEN (IF retry_count < 2 THEN "retry_parse" ELSE "handle_error")
                   ELSE "fetch_jd")]_vars

\* C4: the node after an execution of fetch_jd is analyze exactly when a
\* non-empty job-description text was obtained; otherwise it is retry_fetch
\* while retry_count < 2 and the error state after that.
C4_FetchSuccessor ==
  [][(node = "fetch_jd")
       => (node' = IF jobDescription'.set /\ Truthy(jobDescription'.content)
                   THEN "analyze"
                   ELSE (IF retry_count < 2 THEN "retry_fetch" ELSE "handle_error"))]_vars

\* C5: when the approve stage is over, every proposal it was entered with
\* has been decided, Applied or Skipped, and approvedPatches holds exactly
\* the Applied ones.
C5_GateTotality ==
  (lastNode = "approve_patches" /\ node # "approve_patches")
    => /\ Len(decided) = Len(presented)
       /\ \A i \in 1..Len(decided) : decided[i] \in {"applied", "skipped"}
       /\ approvedPatches =
            SelectIdx(presented, {i \in 1..Len(decided) : decided[i] = "applied"}, 1)

\* the loops of apply_patches are over and applyPatchesNode is about to
\* return: resume.json is still the document the stage was entered with
ApplyDone == node = "apply_patches" /\ app = "text" /\ queue = <<>>

\* the keyword occurs, compared case-insensitively, in some skill group
HasKeyword(doc, kw) ==
  \E i \in 1..Len(doc.skills) :
     toLowerCase(kw) \in LowerSetOf(KeywordsOf(doc.skills[i]))

\* no keyword occurs, compared case-insensitively, in two different groups
GloballyUnique(doc) ==
  \A i, j \in 1..Len(doc.skills) :
     i # j => LowerSetOf(KeywordsOf(doc.skills[i]))
                \cap LowerSetOf(KeywordsOf(doc.skills[j])) = {}

\* how often the proposal with this id is recorded in a result list
Recorded(entries, id) == Cardinality({i \in 1..Len(entries) : entries[i].patch.id = id})

\* C6: the structural attempt of an add-skill proposal on a document that
\* already contains its keyword is recorded as failed with an "already
\* exists" reason and leaves the document as it was.
C6_SecondAddFails ==
  (/\ lastAttempt.made
   /\ lastAttempt.patch.type = "add_skill"
   /\ IsStr(lastAttempt.patch.value)
   /\ HasKeyword(lastAttempt.before, lastAttempt.patch.value.s))
    => /\ ~lastAttempt.applied
       /\ lastAttempt.reason \in {"Skill already exists in resume",
                                  "Keyword already exists in resume"}
       /\ lastAttempt.after = lastAttempt.before

\* C7: when no keyword of the document the apply stage starts from occurs
\* in two different skill groups, no keyword of the in-progress document
\* does after any number of structural attempts.
C7_GlobalUniqueness ==
  (node = "apply_patches" /\ app \in {"json", "text"} /\ GloballyUnique(resume.json))
    => GloballyUnique(updatedJson)

\* C8: a structural attempt recorded as failed leaves the in-progress
\* document exactly as it was before the attempt.
C8_AtomicPerProposal ==
  (lastAttempt.made /\ ~lastAttempt.applied)
    => lastAttempt.after = lastAttempt.before

\* C9: when the apply stage is over every approved proposal is recorded
\* exactly once, in appliedPatches or in failedPatches; for the document
\* {Core: [Python, Docker]} and the approved add-skill proposals
\* [React, Python] that is 1 applied, 1 failed and the keywords
\* [Python, Docker, React].
C9_ExactlyOneOutcome ==
  ApplyDone
    => /\ \A i \in 1..Len(approvedPatches) :
            Recorded(appliedPatches, approvedPatches[i].id)
              + Recorded(failedPatches, approvedPatches[i].id) = 1
       /\ Len(appliedPatches) + Len(failedPatches) = Len(approvedPatches)
       /\ (resume.json = DocCore /\ approvedPatches = <<SkillPatch(React), SkillPatch(Python)>>)
            => /\ Len(appliedPatches) = 1
               /\ Len(failedPatches) = 1
               /\ updatedJson.skills = << Group(Core, <<Python, Docker, React>>) >>

\* C10: a failing proposal does not abort the batch: the apply stage never
\* raises, and when its loops are over every approved proposal has been
\* attempted and every recorded failure carries a reason.
C10_FailuresStayLocal ==
  /\ lastNode = "apply_patches" => node # THROWN
  /\ ApplyDone
       => /\ \A i \in 1..Len(approvedPatches) :
               \E k \in 1..Len(attempted) : attempted[k] = approvedPatches[i]
          /\ \A k \in 1..Len(failedPatches) : failedPatches[k].reason # ""

\* the stage has returned after its first approved proposal failed in the
\* structural pass and then, by an exception of its text handler, in the
\* text pass, and after a later proposal was applied all the same
C10_Witness ==
  /\ lastNode = "apply_patches" /\ node = "export"
  /\ Len(approvedPatches) >= 2
  /\ Recorded(resume.appliedPatches, approvedPatches[1].id) = 0
  /\ \E k \in 1..Len(resume.failedPatches) :
        /\ resume.failedPatches[k].patch = approvedPatches[1]
        /\ resume.failedPatches[k].via = "json"
  /\ \E k \in 1..Len(resume.failedPatches) :
        /\ resume.failedPatches[k].patch = approvedPatches[1]
        /\ resume.failedPatches[k].via = "text"
        /\ resume.failedPatches[k].reason =
             "TypeError: Cannot read properties of undefined (reading 'keywords')"
  /\ \E i \in 2..Len(approvedPatches) :
        Recorded(resume.appliedPatches, approvedPatches[i].id) = 1

\* C11: of the proposals of the input list that are duplicates of one
\* another (same type and case-insensitively equal value, or values of which
\* one contains the other) deduplicatePatches returns the earliest and drops
\* the later ones; of [add-skill React, add-skill react, add-skill React.js]
\* it returns the first.
C11_KeepsEarliest ==
  LET ps == args.patches
      Duplicates(a, b) ==
        \/ a.type = b.type /\ ValueKey(a) = ValueKey(b)
        \/ includes(ValueKey(a), ValueKey(b))
        \/ includes(ValueKey(b), ValueKey(a))
      Earliest == {i \in 1..Len(ps) : \A j \in 1..(i - 1) : ~Duplicates(ps[j], ps[i])}
  IN ret.of = "deduplicatePatches" => ret.value = SelectIdx(ps, Earliest, 1)

\* C12: enforceCategoryLimit called with the maximum 4 returns at most 4
\* groups, and returns its argument as it is when that has at most 4 groups.
C12_CategoryBound ==
  ret.of = "enforceCategoryLimit"
    => /\ Len(ret.value) <= MaxCategories
       /\ Len(args.groups) <= MaxCategories => ret.value = args.groups

\* a list of more than 4 groups has been consolidated
C12_Witness ==
  /\ ret.of = "enforceCategoryLimit"
  /\ Len(args.groups) > MaxCategories
  /\ Len(ret.value) < Len(args.groups)

\* how often the keyword occurs in the groups of a list
Occurrences(groups, kw) ==
  Cardinality(UNION {{<<i, j>> : j \in {k \in 1..Len(groups[i].keywords) :
                                          groups[i].keywords[k] = kw}} :
                     i \in 1..Len(groups)})

\* C13: every keyword occurs in the groups enforceCategoryLimit returns as
\* often as in the groups it was called with.
C13_NoKeywordLost ==
  ret.of = "enforceCategoryLimit"
    => \A i \in 1..Len(args.groups) : \A j \in 1..Len(args.groups[i].keywords) :
          Occurrences(ret.value, args.groups[i].keywords[j])
            = Occurrences(args.groups, args.groups[i].keywords[j])

\* C14: a run that has passed through the error state is reported to the
\* caller as failed: resumePatch raises and returns no result.
C14_ErrorStateReported ==
  (execs["handle_error"] > 0 /\ outcome # "running") => outcome = "threw"

\* C15: every run eventually reaches end, through export or through the
\* error state.
C15_ReachesEnd == <>(node = END)

\* C16: after suggest has returned the next node is approve exactly when
\* the proposal list is non-empty and export otherwise, and neither approve
\* nor apply is executed in a run whose proposal list is empty.
C16_SuggestSuccessor ==
  /\ [][(node = "suggest_patches" /\ node' # THROWN)
          => (node' = IF Len(patches') > 0 THEN "approve_patches" ELSE "export")]_vars
  /\ []((execs["suggest_patches"] > 0 /\ patches = <<>>)
          => (execs["approve_patches"] = 0 /\ execs["apply_patches"] = 0))

\* suggest has returned no proposal and export is next
C16_Witness ==
  /\ lastNode = "suggest_patches" /\ node = "export"
  /\ patches = <<>>
  /\ execs["approve_patches"] = 0 /\ execs["apply_patches"] = 0

\* C17: the node after approve is apply and the node after apply is export.
C17_ApproveApplyExport ==
  [][/\ (node = "approve_patches" /\ node' # node) => node' = "apply_patches"
     /\ (node = "apply_patches" /\ node' # node) => node' = "export"]_vars

NotRetryable == {"analyze", "suggest_patches", "approve_patches", "apply_patches", "export"}

\* C19: analyze, suggest, approve, apply and export run at most once in a
\* run, and a step of any of them, failed or not, leads to no retry node and
\* leaves retry_count as it is.
C19_OnlyParseAndFetchRetry ==
  /\ [](\A n \in NotRetryable : execs[n] <= 1)
  /\ [][(node \in NotRetryable)
          => (node' \notin {"retry_parse", "retry_fetch"}
              /\ retry_count' = retry_count)]_vars

\* suggest has failed after analyze succeeded: the run is over, without a
\* retry
C19_Witness ==
  /\ node = THROWN /\ lastNode = "suggest_patches"
  /\ execs["analyze"] = 1 /\ execs["suggest_patches"] = 1
  /\ execs["retry_parse"] = 0 /\ execs["retry_fetch"] = 0
  /\ retry_count = 0

\* C20: once approve has returned, approvedPatches holds the proposals
\* decided Applied, each once and in the order of the proposal list, and
\* the apply stage attempts and records proposals of approvedPatches only.
C20_OnlyApproved ==
  LET Approved == {approvedPatches[i] : i \in 1..Len(approvedPatches)}
  IN (node = "apply_patches" \/ execs["apply_patches"] > 0)
       => /\ Len(presented) <= Len(patches)
          /\ presented = SubSeq(patches, 1, Len(presented))
          /\ Len(decided) = Len(presented)
          /\ approvedPatches =
               SelectIdx(presented, {i \in 1..Len(presented) : decided[i] = "applied"}, 1)
          /\ \A i, j \in 1..Len(approvedPatches) :
                i # j => approvedPatches[i] # approvedPatches[j]
          /\ \A k \in 1..Len(attempted) : attempted[k] \in Approved
          /\ \A k \in 1..Len(appliedPatches) : appliedPatches[k].patch \in Approved
          /\ \A k \in 1..Len(failedPatches) : failedPatches[k].patch \in Approved

\* the apply stage has returned after the first of two proposals was
\* skipped and the second approved
C20_Witness ==
  /\ lastNode = "apply_patches" /\ node = "export"
  /\ decided = <<"skipped", "applied">>
  /\ Len(approvedPatches) = 1
  /\ Len(attempted) >= 1

\* C21: every answer given at the prompt of a proposal settles proposals:
\* either the one presented, or, after "pause" and "approve all remaining"
\* (respectively "skip all remaining"), all that are still pending, as
\* Applied (respectively Skipped) and without a further prompt.
C21_BulkDecision ==
  [][(node = "approve_patches" /\ apc = "prompt")
       => \E d \in {"applied", "skipped"} :
             \/ decided' = Append(decided, d)
             \/ /\ decided' = decided \o [i \in 1..Len(pending) |-> d]
                /\ pending' = <<>>
                /\ node' = "apply_patches"]_vars

\* C22: in auto-apply mode the approve stage never prompts for a decision,
\* and once it has returned approvedPatches is the list of proposals it was
\* entered with, element for element in the same order, each one Applied.
C22_AutoApply ==
  auto_apply
    => /\ apc # "prompt"
       /\ execs["approve_patches"] > 0
            => /\ lastNode = "approve_patches" => node = "apply_patches"
               /\ approvedPatches = presented
               /\ decided = [i \in 1..Len(presented) |-> "applied"]

\* the approve stage has returned in auto-apply mode with two different
\* proposals
C22_Witness ==
  /\ auto_apply
  /\ lastNode = "approve_patches" /\ node = "apply_patches"
  /\ Len(presented) >= 2
  /\ presented[1] # presented[2]
  /\ approvedPatches = presented

\* C23: called with a non-empty list of n groups, each category resolver
\* returns an index i with 0 <= i < n, whatever the classifier answers: a
\* number too large, a negative number, no number, or no answer at all.
C23_ResolverTotality ==
  (ret.of \in {"pickSkillsGroupIndexForKeyword", "pickGroupForSkill"}
     /\ Len(args.groups) > 0)
    => (0 <= ret.value /\ ret.value < Len(args.groups))

\* the 1-based positions of the groups of a list that hold the keyword,
\* compared case-insensitively
Holders(groups, kw) ==
  {i \in 1..Len(groups) : toLowerCase(trim(kw)) \in LowerSetOf(KeywordsOf(groups[i]))}

\* C24: when some group of the list already holds the keyword, compared
\* case-insensitively, pickSkillsGroupIndexForKeyword returns the index of
\* the first such group whatever the classifier would answer; for
\* [Backend: [Python]] and "python" it returns 0.
C24_ExactMatchFirst ==
  ret.of = "pickSkillsGroupIndexForKeyword"
    => /\ Holders(args.groups, args.keyword) # {}
            => /\ ret.value + 1 \in Holders(args.groups, args.keyword)
               /\ \A i \in Holders(args.groups, args.keyword) : ret.value + 1 <= i
       /\ (args.groups = <<Group(Backend, <<Python>>)>>
             /\ args.keyword = <<"p","y","t","h","o","n">>)
            => ret.value = 0

\* the resolver has returned the second group, which holds the keyword in
\* another case, although the classifier answered with the first
C24_Witness ==
  /\ ret.of = "pickSkillsGroupIndexForKeyword"
  /\ Len(args.groups) = 2
  /\ Holders(args.groups, args.keyword) = {2}
  /\ args.keyword \notin SeqToSet(KeywordsOf(args.groups[2]))
  /\ args.ai = [k |-> "int", n |-> 0]
  /\ ret.value = 1

\* C25: the documents the apply stage starts from have at most 4 skill
\* groups; the in-progress document has at most 4 after any number of
\* structural attempts, and so has the document the stage returns.
C25_GroupCountBounded ==
  /\ (node = "apply_patches" /\ app \in {"json", "text"}
        /\ Len(resume.json.skills) <= MaxCategories)
       => Len(updatedJson.skills) <= MaxCategories
  /\ execs["apply_patches"] > 0 => Len(resume.json.skills) <= MaxCategories

\* priorityOrder of generatePatches: { high: 3, medium: 2, low: 1 }
Rank(p) == IF p.priority = "high" THEN 3 ELSE IF p.priority = "medium" THEN 2 ELSE 1

\* C26: the proposals are applied in priority order, high, then medium,
\* then low: appliedPatches, which lists them in the order of their
\* application, never has a proposal before one of strictly higher
\* priority, and proposals of equal priority are applied in the order of
\* approvedPatches.
C26_PriorityOrder ==
  LET Pos(p) == CHOOSE k \in 1..Len(approvedPatches) : approvedPatches[k] = p
  IN (node = "apply_patches" /\ app \in {"json", "text"})
       => \A i, j \in 1..Len(appliedPatches) :
             i < j => /\ Rank(appliedPatches[i].patch) >= Rank(appliedPatches[j].patch)
                      /\ Rank(appliedPatches[i].patch) = Rank(appliedPatches[j].patch)
                           => Pos(appliedPatches[i].patch) < Pos(appliedPatches[j].patch)

OrderByCount(groups) ==
  LET Before(i, j) ==
        \/ Len(groups[i].keywords) > Len(groups[j].keywords)
        \/ Len(groups[i].keywords) = Len(groups[j].keywords) /\ i < j
  IN [k \in 1..Len(groups) |->
        CHOOSE i \in 1..Len(groups) :
          Cardinality({j \in 1..Len(groups) : Before(j, i)}) = k - 1]

\* every candidate, in order, merged into the kept group most similar to
\* it; of several kept groups of the same highest similarity the one is
\* taken whose position pos in the original list is the smallest
RECURSIVE MergeIntoEarliestBest(_, _, _)
MergeIntoEarliestBest(kept, pos, cands) ==
  IF cands = <<>> THEN kept
  ELSE LET score(k) == calculateCategorySimilarity(Head(cands), kept[k])
           AtLeast(a, b) == a.num * b.den >= b.num * a.den
           best == {k \in 1..Len(kept) :
                      \A h \in 1..Len(kept) : AtLeast(score(k), score(h))}
           t == CHOOSE k \in best : \A h \in best : pos[k] <= pos[h]
       IN MergeIntoEarliestBest(
            [kept EXCEPT ![t].keywords =
               dedupeCaseInsensitive(@ \o Head(cands).keywords)],
            pos, Tail(cands))

\* C28: what enforceCategoryLimit returns for a list of more than 4 groups
\* is determined by the list alone, with every tie going to the group that
\* comes first in that list: the groups are ranked by keyword count, equal
\* counts in the order of the list, the first 3 are kept, and every other
\* group is merged into the kept group most similar to it, equal
\* similarities going to the kept group that is first in the list.
C28_TiesToOriginalOrder ==
  LET n == Len(args.groups)
      order == OrderByCount(args.groups)
      sorted == [k \in 1..n |-> args.groups[order[k]]]
  IN (ret.of = "enforceCategoryLimit" /\ n > MaxCategories)
       => ret.value = MergeIntoEarliestBest(SubSeq(sorted, 1, MaxCategories - 1),
                                            SubSeq(order, 1, MaxCategories - 1),
                                            SubSeq(sorted, MaxCategories, n))

\* C29: what deduplicatePatches returns is a subsequence of its argument:
\* the proposals at some of its positions, each position at most once, in
\* the order of the argument; and no proposal is returned twice.
C29_Subsequence ==
  ret.of = "deduplicatePatches"
    => /\ \E I \in SUBSET (1..Len(args.patches)) :
             ret.value = SelectIdx(args.patches, I, 1)
       /\ \A i, j \in 1..Len(ret.value) : i # j => ret.value[i] # ret.value[j]

\* of four proposals two that are near-duplicates of one another have been
\* dropped and the two others returned
C29_Witness ==
  /\ ret.of = "deduplicatePatches"
  /\ Len(args.patches) = 4
  /\ Len(ret.value) = 2
  /\ ret.value[1] # ret.value[2]
  /\ ret.value[2] # args.patches[4]

\* C30: a run in which no proposal is to be applied, because none was
\* suggested or none was approved, can complete: when it has come to
\* export, export can return and the run reach end.
C30_EmptyRunCompletes ==
  (node = "export" /\ approvedPatches = <<>>) => ENABLED (Export /\ node' = END)

\* C31: in a run of resumePatch the errors list is empty in every state: no
\* node adds an entry to it (a failing node throws or ends in the error
\* state with errors still empty), and neither retry node is ever entered.
C31_ErrorsStayEmpty ==
  /\ errors = <<>>
  /\ node \notin {"retry_parse", "retry_fetch"}
  /\ execs["retry_parse"] = 0 /\ execs["retry_fetch"] = 0

\* fetch_jd obtained no text and the run has passed through the error
\* state: errors is still empty
C31_Witness ==
  /\ errors = <<>>
  /\ lastNode = "handle_error" /\ execs["fetch_jd"] = 1 /\ node = END

HighlightTypes == {"align_experience", "role_enhancement"}

\* C33: a structural attempt of an align-experience or role-enhancement
\* proposal on a document with a work entry appends the value as the last
\* highlight of the last work entry and changes nothing else; when the
\* document has no work entry the proposal ends recorded in failedPatches
\* and not in appliedPatches.
C33_HighlightAppended ==
  /\ (/\ lastAttempt.made
      /\ lastAttempt.patch.type \in HighlightTypes
      /\ Len(lastAttempt.before.work) > 0)
       => /\ lastAttempt.applied
          /\ lastAttempt.after =
               [lastAttempt.before EXCEPT
                  !.work[Len(lastAttempt.before.work)].highlights =
                     Append(@, lastAttempt.patch.value.s)]
  /\ (ApplyDone /\ Len(resume.json.work) = 0)
       => \A i \in 1..Len(approvedPatches) :
            approvedPatches[i].type \in HighlightTypes
              => /\ Recorded(failedPatches, approvedPatches[i].id) = 1
                 /\ Recorded(appliedPatches, approvedPatches[i].id) = 0

\* C34: a structural attempt of an enhance-experience proposal on a document
\* with a work entry is recorded as applied and changes only the summary
\* of the last work entry, which becomes summary + ". " + value when the
\* summary was non-empty and value when it was empty or absent.
C34_SummaryEnhanced ==
  (/\ lastAttempt.made
   /\ lastAttempt.patch.type = "enhance_experience"
   /\ IsStr(lastAttempt.patch.value)
   /\ Len(lastAttempt.before.work) > 0)
    => LET last == Len(lastAttempt.before.work)
           summary == lastAttempt.before.work[last].summary
           value == lastAttempt.patch.value.s
       IN /\ lastAttempt.applied
          /\ lastAttempt.after =
               [lastAttempt.before EXCEPT
                  !.work[last].summary =
                     Str(IF Truthy(summary) THEN summary.s \o DotSpace \o value
                         ELSE value)]

\* the non-empty lines of a skills text, without bullet and outer blanks
SkillsTextLines(text) ==
  LET raw == SplitOn(text, {"\n"}, 1)
  IN NonEmpty([i \in 1..Len(raw) |-> trim(StripBullets(raw[i]))])

\* C36: a textual attempt that adds a keyword to the skills text loses
\* nothing.  Grouped text: afterwards exactly one group holds the keyword,
\* every keyword of every group is still in some group, every group line
\* still has a line of its name and every line without a "category:" prefix
\* is still part of the text.  Flat text: the result is the old text, ", "
\* and the keyword.
C36_TextNothingLost ==
  [][(/\ node = "apply_patches" /\ app = "text" /\ queue # <<>>
      /\ Head(queue).type \in {"add_skill", "add_keyword"}
      /\ Len(appliedPatches') > Len(appliedPatches))
       => LET old == OrEmpty(updatedSections.skills)
              new == OrEmpty(updatedSections'.skills)
              kw == Head(queue).value.s
              oldGroups == extractGroupedSkillsText(old)
              newGroups == extractGroupedSkillsText(new)
              oldLines == SkillsTextLines(old)
          IN IF oldGroups = <<>>
             THEN old # <<>> => new = old \o CommaSpace \o kw
             ELSE /\ Cardinality({i \in 1..Len(newGroups) :
                       toLowerCase(kw) \in LowerSetOf(newGroups[i].keywords)}) = 1
                  /\ \A i \in 1..Len(oldGroups) :
                       \A j \in 1..Len(oldGroups[i].keywords) :
                         \E k \in 1..Len(newGroups) :
                           toLowerCase(oldGroups[i].keywords[j])
                             \in LowerSetOf(newGroups[k].keywords)
                  /\ \A i \in 1..Len(oldLines) :
                       IF LineGroups(oldLines[i]) # <<>>
                       THEN \E k \in 1..Len(newGroups) :
                              newGroups[k].name = LineGroups(oldLines[i])[1].name
                       ELSE includes(new, oldLines[i])]_vars

\* the 1-based positions of the groups of a list whose name contains the
\* keyword, compared case-insensitively
NameHints(groups, kw) ==
  {i \in 1..Len(groups) : includes(toLowerCase(groups[i].name), toLowerCase(trim(kw)))}

\* C35: when no group of the list holds the keyword and the name of some
\* group contains it, compared case-insensitively,
\* pickSkillsGroupIndexForKeyword returns the index of the first such group
\* whatever the classifier would answer.
C35_NameHintBeforeClassifier ==
  (/\ ret.of = "pickSkillsGroupIndexForKeyword"
   /\ Holders(args.groups, args.keyword) = {}
   /\ NameHints(args.groups, args.keyword) # {})
    => /\ ret.value + 1 \in NameHints(args.groups, args.keyword)
       /\ \A i \in NameHints(args.groups, args.keyword) : ret.value + 1 <= i

\* C37: when the validation of the start stage has failed (start has run
\* and has not set the resume) the run is over and stays over: the run has
\* thrown, no stage from parse to export, no retry node and no error state
\* has run, retry_count is 0, and the caller gets nothing but the failure.
C37_ValidationFatal ==
  (execs["start"] > 0 /\ ~resume.set)
    => /\ node = THROWN
       /\ execs["start"] = 1
       /\ \A n \in NodeNames \ {"start"} : execs[n] = 0
       /\ retry_count = 0
       /\ outcome \in {"running", "threw"}

\* the validation of start has failed and the caller has got the failure
C37_Witness ==
  /\ node = THROWN /\ lastNode = "start"
  /\ execs["start"] = 1 /\ execs["parse_resume"] = 0
  /\ outcome = "threw"

\* C38: in interactive mode, once the approve stage is over, a proposal it
\* was entered with is missing from approvedPatches only if the reviewer
\* chose to skip it, directly or after viewing its details; "pause" leaves
\* no proposal out.
C38_OnlySkippedLeftOut ==
  (~auto_apply /\ execs["approve_patches"] > 0 /\ apc = "idle")
    => \A i \in 1..Len(presented) :
          (\A k \in 1..Len(approvedPatches) : approvedPatches[k] # presented[i])
            => (i <= Len(decided) /\ decided[i] = "skipped")

\* C39: whenever a stage with a conditional edge has returned, the value its
\* routing function returns is a key of the destination map of that edge;
\* after suggest it is approve_patches or export.
C39_RoutersTotal ==
  [][(node \in DOMAIN Destinations /\ node' # THROWN)
       => /\ node' \in Destinations[node]
          /\ node = "suggest_patches"
               => /\ suggestRouter(errors', patches') = node'
                  /\ node' \in {"approve_patches", "export"}]_vars

\* suggest has returned proposals and its router has answered
\* approve_patches
C39_Witness ==
  /\ lastNode = "suggest_patches" /\ node = "approve_patches"
  /\ Len(patches) > 0
  /\ suggestRouter(errors, patches) = "approve_patches"

\* C40: the apply stage leaves the state it was given as it is: while its
\* loops run the resume of the state, with its structured document and its
\* text, does not change, whether an attempt succeeds or fails; the edits
\* are in the resume the stage returns, whose originalSections is the text
\* of the document the stage was entered with, and which differs from the
\* resume it was given in nothing but the patch results.
C40_InputUntouched ==
  [][(node = "apply_patches" /\ Len(approvedPatches) > 0)
       => IF node' = "apply_patches"
          THEN resume' = resume
          ELSE /\ node' = "export"
               /\ resume'.originalSections = getResumeSectionsFromJsonResume(resume.json)
               /\ resume'.json = updatedJson
               /\ resume'.sections = updatedSections
               /\ resume' = [resume EXCEPT
                               !.patched = "true",
                               !.json = resume'.json,
                               !.hasSections = TRUE,
                               !.sections = resume'.sections,
                               !.originalSections = resume'.originalSections,
                               !.appliedPatches = resume'.appliedPatches,
                               !.failedPatches = resume'.failedPatches]]_vars

\* the stage has returned after one proposal failed and another one edited
\* the document: the returned text differs from originalSections
C40_Witness ==
  /\ lastNode = "apply_patches" /\ node = "export"
  /\ resume.patched = "true"
  /\ Len(resume.failedPatches) > 0
  /\ \E k \in 1..Len(resume.appliedPatches) : resume.appliedPatches[k].via = "json"
  /\ resume.originalSections # getResumeSectionsFromJsonResume(resume.json)
  /\ resume.originalSections.skills # resume.sections.skills

=============================================================================
